---------------------------- MODULE Spec2Model ----------------------------
(***************************************************************************)
(* Model of the BIM Quantity Take-Off tool: the quantity extractor         *)
(* (src/quantity_extractor.py), the BOQ generator (src/boq_generator.py),  *)
(* the per-type sheet numbering of the Excel exporter                      *)
(* (src/excel_exporter.py), the rate lookup and the pricing of a BOQ       *)
(* workbook (src/cost_estimator.py), the unit resolution of the reader     *)
(* (src/ifc_reader.py) and the steps of a run (src/main.py).               *)
(*                                                                         *)
(* Conventions                                                             *)
(*   - Python None is the record None; Some(x) wraps a present value.      *)
(*   - A Python string that the code splits or searches is a sequence of   *)
(*     tokens (<<"Ifc","Wall">>, <<"L1","|","A">>); split, "in" and lower() *)
(*     work on the tokens.                                                 *)
(*   - A float is a decimal [m, e] standing for m * 10^-e, so that the     *)
(*     unit conversion by 0.001 ** 3 is exact.                             *)
(***************************************************************************)
EXTENDS Integers, Sequences, FiniteSets, TLC

VARIABLES
    pc,                 \* position of the caller in the scenario of the specification
    unit_scale_factor,  \* QuantityExtractor.unit_scale_factor
    element,            \* argument of extract_quantities
    storey_arg,         \* storey argument of extract_quantities
    quantities,         \* outcome of extract_quantities
    elements,           \* argument of extract_all_quantities
    all_quantities,     \* outcome of extract_all_quantities
    self_quantities,    \* BOQGenerator.quantities
    boq_items,          \* BOQGenerator.boq_items
    grouping_level,     \* argument of the last generate_boq
    grouped,            \* the groups of the last generate_boq
    boq_df,             \* the frame the last generate_boq returned
    numbered,           \* outcome of add_item_numbers(boq_df)
    summary,            \* outcome of get_summary(boq_df)
    sheets,             \* the sheets export_boq wrote
    pq_args,            \* arguments of _determine_primary_quantity
    pq_result,          \* its result
    rates,              \* CostEstimator.rates
    rate_call,          \* arguments of the last get_rate
    rate_result,        \* its outcome
    ifc_file,           \* IFCReader.ifc_file: the unit metadata of the model
    scale_result,       \* outcome of get_unit_scale_factor
    workbook,           \* the sheets of the workbook process_boq reads
    processed_dfs,      \* process_boq: the sheets priced in full
    summary_data,       \* process_boq: one entry per priced row
    final_summary,      \* process_boq: the cost summary
    run_args,           \* arguments of process_ifc_to_boq
    output_document,    \* the file at output_path
    run_result          \* what process_ifc_to_boq returned

extractVars == <<unit_scale_factor, element, storey_arg, quantities>>
batchVars   == <<elements, all_quantities>>
boqVars     == <<self_quantities, boq_items, grouping_level, grouped, boq_df,
                 numbered, summary, sheets>>
primaryVars == <<pq_args, pq_result>>
rateVars    == <<rates, rate_call, rate_result>>
unitVars    == <<ifc_file, scale_result>>
costVars    == <<workbook, processed_dfs, summary_data, final_summary>>
runVars     == <<run_args, output_document, run_result>>

-----------------------------------------------------------------------------
(* Python values *)

None == [some |-> FALSE]
Some(x) == [some |-> TRUE, val |-> x]
IsNone(o) == ~o.some

\* float('nan'), the value read_excel gives for an empty cell: truthy, and
\* not a string.
NaN == [some |-> TRUE, nan |-> TRUE]

\* Values found in quantity and property sets: a number, a numeric string,
\* a non-numeric string, or None.
PyNum(n)    == [k |-> "num", v |-> n]
PyNumStr(n) == [k |-> "numstr", v |-> n]
PyStr       == [k |-> "str", v |-> 0]
PyNone      == [k |-> "none", v |-> 0]

\* Decimal floats: m * 10^-e.
Dec(m, e) == [m |-> m, e |-> e]

\* The same value without trailing zeros in the fraction.
RECURSIVE Norm(_)
Norm(d) == IF d.e > 0 /\ d.m % 10 = 0 THEN Norm(Dec(d.m \div 10, d.e - 1)) ELSE d

RECURSIVE Pow10(_)
Pow10(n) == IF n = 0 THEN 1 ELSE 10 * Pow10(n - 1)

DecMul(a, b) == Norm(Dec(a.m * b.m, a.e + b.e))
DecAdd(a, b) ==
    LET e == IF a.e >= b.e THEN a.e ELSE b.e
    IN  Norm(Dec(a.m * Pow10(e - a.e) + b.m * Pow10(e - b.e), e))
RECURSIVE DecPow(_, _)
DecPow(a, n) == IF n = 0 THEN Dec(1, 0) ELSE DecMul(a, DecPow(a, n - 1))

\* float(x): the value, or ValueError / TypeError.
Float(x) ==
    CASE x.k = "num"    -> [ok |-> TRUE, v |-> Dec(x.v, 0)]
      [] x.k = "numstr" -> [ok |-> TRUE, v |-> Dec(x.v, 0)]
      [] x.k = "str"    -> [ok |-> FALSE, v |-> Dec(0, 0)]
      [] x.k = "none"   -> [ok |-> FALSE, v |-> Dec(0, 0)]

\* "tok in name" for a string held as tokens.
Contains(name, tok) == \E i \in 1..Len(name) : name[i] = tok

-----------------------------------------------------------------------------
(* quantity_extractor.py *)

\* The name -> field table of both tiers; "" when the name is not in it.
quantity_mappings(name) ==
    CASE name \in {"NetVolume", "GrossVolume", "Volume"} -> "volume"
      [] name \in {"NetArea", "GrossArea", "Area", "NetSideArea", "TotalSurfaceArea"} -> "area"
      [] name \in {"Length", "NetLength", "GrossLength", "Perimeter", "Width", "Height", "Depth"} -> "length"
      [] OTHER -> ""

\* A tier's result dictionary: a field that is None is a key that is not set.
EmptyQ == [volume |-> None, area |-> None, length |-> None]
IsEmptyQ(q) == IsNone(q.volume) /\ IsNone(q.area) /\ IsNone(q.length)
AllNone(q) == IsNone(q.volume) /\ IsNone(q.area) /\ IsNone(q.length)

\* A last-value-wins variant of SetIfNone (mutant).
SetOverwrite(q, key, value) ==
    IF key \in {"volume", "area", "length"}
    THEN [q EXCEPT ![key] = Some(value)]
    ELSE q

\* if quantities.get(key) is None: quantities[key] = value
SetIfNone(q, key, value) ==
    IF key \in {"volume", "area", "length"} /\ IsNone(q[key])
    THEN [q EXCEPT ![key] = Some(value)]
    ELSE q

\* The loop over one dictionary of named values (lines 147-156, 245-255).
RECURSIVE ScanNamed(_, _, _)
ScanNamed(entries, i, q) ==
    IF i > Len(entries) THEN q
    ELSE LET e == entries[i]
             key == quantity_mappings(e.name)
             f == Float(e.value)
         IN  ScanNamed(entries, i + 1,
                       IF key # "" /\ f.ok THEN SetIfNone(q, key, f.v) ELSE q)

\* Method 1: the loop over the quantity sets that get_qtos returns.
RECURSIVE ScanQtoSets(_, _, _)
ScanQtoSets(sets, i, q) ==
    IF i > Len(sets) THEN q
    ELSE ScanQtoSets(sets, i + 1, ScanNamed(sets[i], 1, q))

\* Method 2: the quantities of one IfcElementQuantity, by their IFC class.
KindKey(kind) ==
    CASE kind = "IfcQuantityVolume" -> "volume"
      [] kind = "IfcQuantityArea"   -> "area"
      [] kind = "IfcQuantityLength" -> "length"
      [] OTHER -> ""

RECURSIVE ScanTyped(_, _, _)
ScanTyped(entries, i, q) ==
    IF i > Len(entries) THEN q
    ELSE LET e == entries[i]
             key == KindKey(e.kind)
             f == Float(e.value)
         IN  ScanTyped(entries, i + 1,
                       IF e.value.k # "none" /\ key # "" /\ f.ok
                       THEN SetIfNone(q, key, f.v) ELSE q)

RECURSIVE ScanIsDefinedBy(_, _, _)
ScanIsDefinedBy(sets, i, q) ==
    IF i > Len(sets) THEN q
    ELSE ScanIsDefinedBy(sets, i + 1, ScanTyped(sets[i], 1, q))

\* _extract_ifc_element_quantities: get_qtos may raise, which the method
\* catches, returning what it has (nothing).
Tier1Method2(q, sets) == IF IsEmptyQ(q) THEN ScanIsDefinedBy(sets, 1, q) ELSE q

_extract_ifc_element_quantities(el) ==
    IF el.qtos.raises THEN EmptyQ
    ELSE Tier1Method2(ScanQtoSets(el.qtos.sets, 1, EmptyQ), el.qtos.sets)

\* _extract_qto_properties: only the property sets whose name holds 'Qto'
\* or 'Quantities' are scanned.
RECURSIVE ScanPsets(_, _, _)
ScanPsets(sets, i, q) ==
    IF i > Len(sets) THEN q
    ELSE LET s == sets[i]
         IN  ScanPsets(sets, i + 1,
                       IF Contains(s.name, "Qto") \/ Contains(s.name, "Quantities")
                       THEN ScanNamed(s.props, 1, q) ELSE q)

_extract_qto_properties(el) ==
    IF el.psets.raises THEN EmptyQ ELSE ScanPsets(el.psets.sets, 1, EmptyQ)

\* max(dims) of the bounding box
Max3(a, b, c) == IF a >= b /\ a >= c THEN a ELSE IF b >= c THEN b ELSE c

\* "if volume and volume > 0": a geometric measure is kept when positive.
GeomPositive(r) == r.k = "num" /\ r.v # 0 /\ r.v > 0

\* _calculate_geometric_quantities: create_shape may raise or give nothing;
\* volume(), area() and bbox() may each raise (k = "raises").
_calculate_geometric_quantities(el) ==
    IF el.geom.shape # "ok" THEN EmptyQ
    ELSE LET g == el.geom
             vol == IF GeomPositive(g.volume) THEN Some(Dec(g.volume.v, 0)) ELSE None
             ar  == IF GeomPositive(g.area) THEN Some(Dec(g.area.v, 0)) ELSE None
             len == IF el.type \in {<<"Ifc", "Beam">>, <<"Ifc", "Column">>} /\ g.bbox.k = "num"
                    THEN LET b == g.bbox.v
                             length == Max3(b[4] - b[1], b[5] - b[2], b[6] - b[3])
                         IN  IF length > 0 THEN Some(Dec(length, 0)) ELSE None
                    ELSE None
         IN  [volume |-> vol, area |-> ar, length |-> len]

\* _get_category
_get_category(el) ==
    IF el.predefined # <<>> THEN el.type \o <<"_">> \o el.predefined ELSE el.type

\* _extract_material: the first material with a Name, or with a
\* MaterialSelect that has one; None when get_materials raises.
RECURSIVE FirstMaterial(_, _)
FirstMaterial(ms, i) ==
    IF i > Len(ms) THEN None
    ELSE IF ms[i].k = "Name" THEN ms[i].name
    ELSE IF ms[i].k = "MaterialSelect" THEN ms[i].name
    ELSE FirstMaterial(ms, i + 1)

_extract_material(el) ==
    IF el.materials.raises THEN None ELSE FirstMaterial(el.materials.list, 1)

\* Fill the fields of q that are still None from p (lines 74-76, 82-84).
FillAbsent(q, p) ==
    [f \in {"volume", "area", "length"} |->
        IF IsNone(q[f]) /\ ~IsNone(p[f]) THEN p[f] ELSE q[f]]

\* Step 2 runs when tier 1 returned nothing at all (line 70).
Step2Condition(t1, q) == IsEmptyQ(t1) \/ AllNone(q)

\* A variant of Step3Condition that always runs the geometry (mutant).
Step3Always(q) == TRUE

\* Step 3 runs when all three measures are still None (line 79).
Step3Condition(q) == AllNone(q)

\* A variant of Scale that converts with the plain factor, whatever the
\* dimension of the field (mutant).
ScaleLinear(o, scale, n) ==
    IF IsNone(o) THEN None ELSE Some(DecMul(o.val, scale))

\* Unit conversion (lines 86-95).
Scale(o, scale, n) ==
    IF IsNone(o) THEN None ELSE Some(DecMul(o.val, DecPow(scale, n)))

\* The three tiers, before unit conversion.
ResolveRaw(el) ==
    LET t1 == _extract_ifc_element_quantities(el)
        q1 == FillAbsent(EmptyQ, t1)
        q2 == IF Step2Condition(t1, q1)
              THEN FillAbsent(q1, _extract_qto_properties(el)) ELSE q1
        q3 == IF Step3Condition(q2)
              THEN FillAbsent(q2, _calculate_geometric_quantities(el)) ELSE q2
    IN  q3

\* A variant of extract_quantities without the try/except of the four
\* source lookups: a failing lookup leaves the method (mutant).
ExtractQuantitiesUnguarded(el, storey, scale) ==
    IF \/ el.fault # "none"
       \/ el.qtos.raises \/ el.psets.raises \/ el.geom.shape = "raises"
       \/ el.materials.raises
    THEN [status |-> "raised"]
    ELSE LET q == ResolveRaw(el)
         IN  [status |-> "ok",
              rec |-> [element_id |-> el.id,
                       type       |-> el.type,
                       volume     |-> Scale(q.volume, scale, 3),
                       area       |-> Scale(q.area, scale, 2),
                       length     |-> Scale(q.length, scale, 1),
                       count      |-> 1,
                       material   |-> _extract_material(el),
                       storey     |-> storey,
                       category   |-> _get_category(el)]]

\* extract_quantities: raises when element.id() or element.is_a() raises
\* (lines 50-52), otherwise returns the record.
extract_quantities(el, storey, scale) ==
    IF el.fault # "none" THEN [status |-> "raised"]
    ELSE LET q == ResolveRaw(el)
         IN  [status |-> "ok",
              rec |-> [element_id |-> el.id,
                       type       |-> el.type,
                       volume     |-> Scale(q.volume, scale, 3),
                       area       |-> Scale(q.area, scale, 2),
                       length     |-> Scale(q.length, scale, 1),
                       count      |-> 1,
                       material   |-> _extract_material(el),
                       storey     |-> storey,
                       category   |-> _get_category(el)]]

\* extract_all_quantities: the loop over the elements.  A failing element is
\* skipped by the except clause, whose log message calls element.id(): when
\* that raises too, the exception leaves the method.
\* A variant of AppendRecord that puts the record in front (mutant).
PrependRecord(list, r) == <<r>> \o list

AppendRecord(list, r) == Append(list, r)

GetStorey(el, use_fn) ==
    IF use_fn /\ ~el.storey.raises THEN el.storey.val ELSE None

RECURSIVE ExtractLoop(_, _, _, _, _)
ExtractLoop(els, i, use_fn, scale, acc) ==
    IF i > Len(els) THEN [status |-> "ok", list |-> acc]
    ELSE LET el == els[i]
             r == extract_quantities(el, GetStorey(el, use_fn), scale)
         IN  IF r.status = "ok"
             THEN ExtractLoop(els, i + 1, use_fn, scale, AppendRecord(acc, r.rec))
             ELSE IF el.fault = "id"
                  THEN [status |-> "raised", list |-> <<>>]
                  ELSE ExtractLoop(els, i + 1, use_fn, scale, acc)

extract_all_quantities(els, use_fn, scale) == ExtractLoop(els, 1, use_fn, scale, <<>>)

-----------------------------------------------------------------------------
(* Strings as token sequences *)

\* The tokens in the order of the strings they stand for.
TokenOrder ==
    << " - ", "A", "Beam", "Column", "Concrete", "CurtainWall", "Door", "Footing",
       "Ifc", "L1", "L2", "Not Specified", "Pile", "Railing", "Roof", "Sheet1",
       "Slab", "Steel", "T", "Unknown", "Wall", "_", "|" >>

TokRank(t) == CHOOSE i \in 1..Len(TokenOrder) : TokenOrder[i] = t

\* a < b for strings.
RECURSIVE StrLess(_, _)
StrLess(a, b) ==
    IF b = <<>> THEN FALSE
    ELSE IF a = <<>> THEN TRUE
    ELSE IF Head(a) = Head(b) THEN StrLess(Tail(a), Tail(b))
    ELSE TokRank(Head(a)) < TokRank(Head(b))

\* s.split(sep)
RECURSIVE SplitFrom(_, _, _, _)
SplitFrom(s, i, sep, cur) ==
    IF i > Len(s) THEN <<cur>>
    ELSE IF s[i] = sep THEN <<cur>> \o SplitFrom(s, i + 1, sep, <<>>)
    ELSE SplitFrom(s, i + 1, sep, Append(cur, s[i]))

Split(s, sep) == SplitFrom(s, 1, sep, <<>>)

\* s.replace(tok, '')
RemoveTok(s, tok) == SelectSeq(s, LAMBDA t : t # tok)

\* s.replace(c, '_') for each c of a set of characters
ReplaceToks(s, toks, by) == [i \in 1..Len(s) |-> IF s[i] \in toks THEN by ELSE s[i]]

StartsWith(s, tok) == Len(s) > 0 /\ s[1] = tok

\* "x or default" for an optional string: None and '' are falsy.
Truthy(o) == o.some /\ o.val # <<>>
OrElse(o, default) == IF Truthy(o) THEN o.val ELSE default

-----------------------------------------------------------------------------
(* boq_generator.py *)

UnitVolume == "m3"    \* 'm³'
UnitArea   == "m2"    \* 'm²'
UnitLength == "m"
UnitCount  == "No."

Zero == Dec(0, 0)

\* A variant of Positive that admits zero (mutant).
NonNegative(d) == d.m >= 0

\* total > 0
Positive(d) == d.m > 0

\* round(x, 3), ties to even
Round3(d) ==
    IF d.e <= 3 THEN Norm(d)
    ELSE LET p  == Pow10(d.e - 3)
             lo == d.m \div p
             r  == d.m % p
             q  == IF 2 * r < p THEN lo
                   ELSE IF 2 * r > p THEN lo + 1
                   ELSE IF lo % 2 = 0 THEN lo ELSE lo + 1
         IN  Norm(Dec(q, 3))

\* The key of one record under a grouping level (lines 101-116).
GroupKey(qty, level) ==
    CASE level = "type"     -> qty.type
      [] level = "storey"   -> OrElse(qty.storey, <<"Unknown">>)
      [] level = "material" -> OrElse(qty.material, <<"Unknown">>)
      [] level = "all"      -> qty.type \o <<"|">> \o OrElse(qty.storey, <<"Unknown">>)
                                        \o <<"|">> \o OrElse(qty.material, <<"Unknown">>)
      [] OTHER              -> qty.type

\* A variant of AddToGroup that opens a group for every record (mutant).
AddToNewGroup(g, key, qty) == Append(g, [key |-> key, items |-> <<qty>>])

\* grouped[key].append(qty): groups in the order of their first record.
AddToGroup(g, key, qty) ==
    IF \E i \in 1..Len(g) : g[i].key = key
    THEN [i \in 1..Len(g) |->
            IF g[i].key = key
            THEN [g[i] EXCEPT !.items = Append(@, qty)]
            ELSE g[i]]
    ELSE Append(g, [key |-> key, items |-> <<qty>>])

RECURSIVE GroupLoop(_, _, _, _)
GroupLoop(qs, i, level, g) ==
    IF i > Len(qs) THEN g
    ELSE GroupLoop(qs, i + 1, level, AddToGroup(g, GroupKey(qs[i], level), qs[i]))

_group_quantities(qs, level) == GroupLoop(qs, 1, level, <<>>)

\* sum(item.get(f, 0) or 0 for item in items)
RECURSIVE SumField(_, _, _)
SumField(items, f, i) ==
    IF i > Len(items) THEN Zero
    ELSE DecAdd(IF items[i][f].some THEN items[i][f].val ELSE Zero,
                SumField(items, f, i + 1))

\* sum(item.get('count', 1) for item in items)
RECURSIVE SumCount(_, _)
SumCount(items, i) ==
    IF i > Len(items) THEN 0 ELSE items[i].count + SumCount(items, i + 1)

\* _create_description
_create_description(element_type, material) ==
    LET type_name == IF StartsWith(element_type, "Ifc")
                     THEN RemoveTok(element_type, "Ifc") ELSE element_type
    IN  IF material # <<>> /\ material \notin {<<"Unknown">>, <<"Not Specified">>}
        THEN type_name \o <<" - ">> \o material
        ELSE type_name

volume_elements ==
    {<<"Ifc", "Wall">>, <<"Ifc", "Slab">>, <<"Ifc", "Footing">>, <<"Ifc", "Column">>,
     <<"Ifc", "Beam">>}
area_elements == {<<"Ifc", "Roof">>, <<"Ifc", "CurtainWall">>, <<"Ifc", "Railing">>}
length_elements == {<<"Ifc", "Beam">>, <<"Ifc", "Pile">>}

\* A variant of _determine_primary_quantity that tries the length-priority
\* types before the volume-priority types (mutant).
PrimaryLengthFirst(volume, area, length, count, element_type) ==
    LET element_base == Split(element_type, "_")[1]
    IN  IF element_base \in length_elements /\ Positive(length)
             THEN [unit |-> UnitLength, quantity |-> length]
        ELSE IF element_base \in volume_elements /\ Positive(volume)
             THEN [unit |-> UnitVolume, quantity |-> volume]
        ELSE IF element_base \in area_elements /\ Positive(area)
             THEN [unit |-> UnitArea, quantity |-> area]
        ELSE IF Positive(volume) THEN [unit |-> UnitVolume, quantity |-> volume]
        ELSE IF Positive(area) THEN [unit |-> UnitArea, quantity |-> area]
        ELSE IF Positive(length) THEN [unit |-> UnitLength, quantity |-> length]
        ELSE [unit |-> UnitCount, quantity |-> Dec(count, 0)]

\* A variant of _determine_primary_quantity without the type priorities:
\* the first positive measure decides (mutant).
PrimaryByAvailability(volume, area, length, count, element_type) ==
    IF Positive(volume) THEN [unit |-> UnitVolume, quantity |-> volume]
    ELSE IF Positive(area) THEN [unit |-> UnitArea, quantity |-> area]
    ELSE IF Positive(length) THEN [unit |-> UnitLength, quantity |-> length]
    ELSE [unit |-> UnitCount, quantity |-> Dec(count, 0)]

\* _determine_primary_quantity
_determine_primary_quantity(volume, area, length, count, element_type) ==
    LET element_base == Split(element_type, "_")[1]
    IN  IF element_base \in volume_elements /\ Positive(volume)
             THEN [unit |-> UnitVolume, quantity |-> volume]
        ELSE IF element_base \in area_elements /\ Positive(area)
             THEN [unit |-> UnitArea, quantity |-> area]
        ELSE IF element_base \in length_elements /\ Positive(length)
             THEN [unit |-> UnitLength, quantity |-> length]
        ELSE IF Positive(volume) THEN [unit |-> UnitVolume, quantity |-> volume]
        ELSE IF Positive(area) THEN [unit |-> UnitArea, quantity |-> area]
        ELSE IF Positive(length) THEN [unit |-> UnitLength, quantity |-> length]
        ELSE [unit |-> UnitCount, quantity |-> Dec(count, 0)]

\* A variant of AuxTotal that keeps the total as summed (mutant).
AuxTotalUnrounded(total) == IF Positive(total) THEN Some(Norm(total)) ELSE None

\* round(total, 3) if total > 0 else None
AuxTotal(total) == IF Positive(total) THEN Some(Round3(total)) ELSE None

\* _create_boq_item
_create_boq_item(group_key, items, level) ==
    LET composite == Contains(group_key, "|")
        parts == Split(group_key, "|")
        first_item == items[1]
        element_type == IF composite THEN parts[1] ELSE first_item.type
        storey ==
            IF composite THEN parts[2]
            ELSE IF level = "storey"
                 THEN (IF group_key # <<"Unknown">> THEN group_key ELSE <<"Not Specified">>)
                 ELSE OrElse(first_item.storey, <<"Not Specified">>)
        material ==
            IF composite THEN (IF Len(parts) > 2 THEN parts[3] ELSE <<"Unknown">>)
            ELSE OrElse(first_item.material, <<"Not Specified">>)
        total_volume == SumField(items, "volume", 1)
        total_area == SumField(items, "area", 1)
        total_length == SumField(items, "length", 1)
        total_count == SumCount(items, 1)
        primary == _determine_primary_quantity(total_volume, total_area, total_length,
                                               total_count, element_type)
    IN  [item_no      |-> None,
         element_type |-> element_type,
         description  |-> _create_description(element_type, material),
         unit         |-> primary.unit,
         quantity     |-> Round3(primary.quantity),
         storey       |-> storey,
         material     |-> material,
         volume_m3    |-> AuxTotal(total_volume),
         area_m2      |-> AuxTotal(total_area),
         length_m     |-> AuxTotal(total_length),
         count        |-> total_count]

\* df.sort_values(by=['element_type', 'storey'], ignore_index=True): a stable
\* sort of the rows.
RowLess(a, b) ==
    \/ StrLess(a.element_type, b.element_type)
    \/ (a.element_type = b.element_type /\ StrLess(a.storey, b.storey))

RECURSIVE InsertRow(_, _)
InsertRow(sorted, x) ==
    IF sorted = <<>> THEN <<x>>
    ELSE IF RowLess(x, Head(sorted)) THEN <<x>> \o sorted
    ELSE <<Head(sorted)>> \o InsertRow(Tail(sorted), x)

\* A variant of SortRows that leaves the rows in the order of the groups
\* (mutant).
KeepRowOrder(rows, i, sorted) == rows

RECURSIVE SortRows(_, _, _)
SortRows(rows, i, sorted) ==
    IF i > Len(rows) THEN sorted ELSE SortRows(rows, i + 1, InsertRow(sorted, rows[i]))

BoqColumns ==
    << "item_no", "element_type", "description", "unit", "quantity", "storey",
       "material", "volume_m3", "area_m2", "length_m", "count" >>

EmptyDf == [columns |-> <<>>, rows |-> <<>>]
DfEmpty(df) == df.rows = <<>> \/ df.columns = <<>>

\* The BOQ items of the groups, in the order of the groups (lines 60-63).
RECURSIVE CreateItems(_, _, _)
CreateItems(g, i, level) ==
    IF i > Len(g) THEN <<>>
    ELSE <<_create_boq_item(g[i].key, g[i].items, level)>>
         \o CreateItems(g, i + 1, level)

\* generate_boq: the retained items, the groups and the returned frame.
generate_boq(qs, items0, level) ==
    IF qs = <<>>
    THEN [boq_items |-> items0, grouped |-> <<>>, df |-> EmptyDf]
    ELSE LET g == _group_quantities(qs, level)
             items == CreateItems(g, 1, level)
         IN  [boq_items |-> items, grouped |-> g,
              df |-> [columns |-> BoqColumns, rows |-> SortRows(items, 1, <<>>)]]

\* df.insert(0, 'item_no', range(1, len(df) + 1))
NumberRows(rows) == [i \in 1..Len(rows) |-> [rows[i] EXCEPT !.item_no = Some(i)]]

\* add_item_numbers: DataFrame.insert raises ValueError when the column is
\* already in the frame.
add_item_numbers(df) ==
    IF DfEmpty(df) THEN [status |-> "ok", df |-> df]
    ELSE IF \E c \in 1..Len(df.columns) : df.columns[c] = "item_no"
         THEN [status |-> "raised", df |-> EmptyDf]
         ELSE [status |-> "ok",
               df |-> [columns |-> <<"item_no">> \o df.columns, rows |-> NumberRows(df.rows)]]

\* df[col].unique(): the values in the order of their first row.
RECURSIVE UniqueTypes(_, _, _)
UniqueTypes(rows, i, seen) ==
    IF i > Len(rows) THEN seen
    ELSE UniqueTypes(rows, i + 1,
                     IF Contains(seen, rows[i].element_type) THEN seen
                     ELSE Append(seen, rows[i].element_type))

\* A variant of SumColumn that stops at the first absent value (mutant).
RECURSIVE SumColumnUntilNull(_, _, _)
SumColumnUntilNull(rows, col, i) ==
    IF i > Len(rows) \/ ~rows[i][col].some THEN Zero
    ELSE DecAdd(rows[i][col].val, SumColumnUntilNull(rows, col, i + 1))

\* df[col].sum(): absent values are skipped.
RECURSIVE SumColumn(_, _, _)
SumColumn(rows, col, i) ==
    IF i > Len(rows) THEN Zero
    ELSE DecAdd(IF rows[i][col].some THEN rows[i][col].val ELSE Zero,
                SumColumn(rows, col, i + 1))

RECURSIVE SumCountColumn(_, _)
SumCountColumn(rows, i) ==
    IF i > Len(rows) THEN 0 ELSE rows[i].count + SumCountColumn(rows, i + 1)

\* get_summary
get_summary(df) ==
    IF DfEmpty(df) THEN [empty |-> TRUE]
    ELSE [empty           |-> FALSE,
          total_items     |-> Len(df.rows),
          total_volume_m3 |-> SumColumn(df.rows, "volume_m3", 1),
          total_area_m2   |-> SumColumn(df.rows, "area_m2", 1),
          total_length_m  |-> SumColumn(df.rows, "length_m", 1),
          total_count     |-> SumCountColumn(df.rows, 1),
          element_types   |-> UniqueTypes(df.rows, 1, <<>>)]

-----------------------------------------------------------------------------
(* excel_exporter.py *)

SheetNameLimit == 31

\* Number of characters of a token.
TokLen(t) ==
    CASE t \in {"A", "T", "_", "|"} -> 1
      [] t \in {"L1", "L2"} -> 2
      [] t \in {" - ", "Ifc"} -> 3
      [] t \in {"Beam", "Door", "Pile", "Roof", "Slab", "Wall"} -> 4
      [] t = "Steel" -> 5
      [] t \in {"Column", "Sheet1"} -> 6
      [] t \in {"Footing", "Railing", "Unknown"} -> 7
      [] t = "Concrete" -> 8
      [] t = "CurtainWall" -> 11
      [] t = "Not Specified" -> 13

RECURSIVE StrLen(_)
StrLen(s) == IF s = <<>> THEN 0 ELSE TokLen(Head(s)) + StrLen(Tail(s))

\* clean_name[:31], cut at a token boundary
RECURSIVE Truncate(_, _)
Truncate(s, n) ==
    IF s = <<>> \/ TokLen(Head(s)) > n THEN <<>>
    ELSE <<Head(s)>> \o Truncate(Tail(s), n - TokLen(Head(s)))

\* _clean_sheet_name
_clean_sheet_name(name) ==
    LET stripped == IF StartsWith(name, "Ifc") THEN RemoveTok(name, "Ifc") ELSE name
        valid == ReplaceToks(stripped, {"/", "\\", "?", "*", "[", "]"}, "_")
        cut == IF StrLen(valid) > SheetNameLimit THEN Truncate(valid, SheetNameLimit) ELSE valid
    IN  IF cut = <<>> THEN <<"Sheet1">> ELSE cut

\* boq_df[boq_df['element_type'] == elem_type]
RowsOfType(rows, t) == SelectSeq(rows, LAMBDA r : r.element_type = t)

\* One sheet per element type, numbered from 1 (lines 63-77).
TypeSheet(rows, t) ==
    [name |-> _clean_sheet_name(t), rows |-> NumberRows(RowsOfType(rows, t))]

\* The row of the placeholder sheet (lines 110-112).
NoDataMessage == [Message |-> "No data found in IFC file."]

\* export_boq: the sheets written, in order.
export_boq(df, summ, project_info) ==
    LET types == UniqueTypes(df.rows, 1, <<>>)
        typed == ~DfEmpty(df) /\ Contains(df.columns, "element_type") /\ Len(types) > 0
        boq_sheets ==
            IF typed
            THEN [i \in 1..Len(types) |-> TypeSheet(df.rows, types[i])]
            ELSE << [name |-> <<"Bill of Quantities">>,
                     rows |-> IF DfEmpty(df) THEN <<>> ELSE NumberRows(df.rows)] >>
        sheets_created == typed \/ Len(boq_sheets) > 0
        summary_sheet ==
            IF summ.some /\ ~summ.val.empty
            THEN << [name |-> <<"Summary">>, rows |-> <<summ.val>>] >> ELSE <<>>
        info_sheet ==
            IF project_info THEN << [name |-> <<"Project Information">>, rows |-> <<>>] >>
            ELSE <<>>
        placeholder ==
            IF ~sheets_created
            THEN << [name |-> <<"No Data">>, rows |-> <<NoDataMessage>>] >> ELSE <<>>
    IN  boq_sheets \o summary_sheet \o info_sheet \o placeholder

-----------------------------------------------------------------------------
(* cost_estimator.py *)

\* JSON values of the rate file.
JObj(entries) == [k |-> "obj", entries |-> entries, v |-> 0]
JNum(n) == [k |-> "num", entries |-> <<>>, v |-> n]
JList == [k |-> "list", entries |-> <<>>, v |-> 0]

\* str.lower() on a string of characters.
UpperCase == <<"A", "C", "D", "E", "G", "M", "N", "O", "R", "S", "T">>
LowerCase == <<"a", "c", "d", "e", "g", "m", "n", "o", "r", "s", "t">>
LowerChar(c) ==
    IF \E i \in 1..Len(UpperCase) : UpperCase[i] = c
    THEN LowerCase[CHOOSE i \in 1..Len(UpperCase) : UpperCase[i] = c]
    ELSE c
Lower(str) == [i \in 1..Len(str) |-> LowerChar(str[i])]

\* "a in b" for strings of characters.
IsSubstr(a, b) ==
    \E i \in 0..(Len(b) - Len(a)) : Len(a) <= Len(b) /\ SubSeq(b, i + 1, i + Len(a)) = a

DefaultKey == <<"d", "e", "f", "a", "u", "l", "t">>

\* A variant of KeyMatches that compares the key as written (mutant).
KeyMatchesCaseSensitive(mat_key, material_lower) ==
    IsSubstr(mat_key, material_lower) /\ mat_key # DefaultKey

\* mat_key.lower() in material_lower and mat_key != 'default'
KeyMatches(mat_key, material_lower) ==
    IsSubstr(Lower(mat_key), material_lower) /\ mat_key # DefaultKey

\* dict.get(key, default) on the entries of a JSON object.
HasKey(entries, key) == \E i \in 1..Len(entries) : entries[i].key = key
Lookup(entries, key) == entries[CHOOSE i \in 1..Len(entries) : entries[i].key = key].value

\* "not x" for a JSON value.
Falsy(j) == (j.k = "obj" /\ j.entries = <<>>) \/ (j.k = "num" /\ j.v = 0)

\* The loop over type_rates.items() (lines 52-54): the first matching rate.
RECURSIVE FirstMatch(_, _, _)
FirstMatch(entries, i, material_lower) ==
    IF i > Len(entries) THEN None
    ELSE IF KeyMatches(entries[i].key, material_lower) THEN Some(entries[i].value)
    ELSE FirstMatch(entries, i + 1, material_lower)

Returned(x) == [status |-> "ok", value |-> x]
Raised == [status |-> "raised", value |-> JNum(0)]

\* get_rate: .get and .items raise AttributeError on a value that is not
\* a mapping, material.lower() (line 50) on a material that is not a string.
get_rate(self_rates, element_type, material) ==
    IF self_rates.k # "obj" THEN Raised
    ELSE LET type_rates == IF HasKey(self_rates.entries, element_type)
                           THEN Lookup(self_rates.entries, element_type)
                           ELSE JObj(<<>>)
         IN  IF Falsy(type_rates) THEN Returned(JNum(0))
             ELSE IF type_rates.k # "obj" THEN Raised
             ELSE IF material = NaN THEN Raised
             ELSE LET m == IF Truthy(material)
                           THEN FirstMatch(type_rates.entries, 1, Lower(material.val))
                           ELSE None
                  IN  IF m.some THEN Returned(m.val)
                      ELSE IF HasKey(type_rates.entries, DefaultKey)
                           THEN Returned(Lookup(type_rates.entries, DefaultKey))
                           ELSE Returned(JNum(0))

\* load_rates: the parsed file, or {} when it cannot be opened or parsed.
load_rates(file) == IF file.readable THEN file.json ELSE JObj(<<>>)

\* Sheets process_boq does not price (line 80).
SkippedSheets == {<<"Summary">>, <<"Project Information">>, <<"No Data">>}

\* A numeric cell of a sheet; a string cell is Some(s), an empty cell NaN.
\* The element_type cell of a row is a string.
Number(d) == [some |-> TRUE, num |-> d]

\* pd.to_numeric(x, errors='coerce'), with NaN replaced by 0.0 (lines 97-100).
QuantityOf(cell) == IF "num" \in DOMAIN cell THEN cell.num ELSE Dec(0, 0)

\* The loop over the rows of one sheet (lines 94-113): each row is priced
\* and added to summary_data, until get_rate raises.
RECURSIVE PriceRows(_, _, _, _, _)
PriceRows(self_rates, rows, i, priced, data) ==
    IF i > Len(rows) THEN [status |-> "ok", rows |-> priced, summary_data |-> data]
    ELSE LET row == rows[i]
             r == get_rate(self_rates, row.element_type.val, row.material)
         IN  IF r.status = "raised"
             THEN [status |-> "raised", rows |-> priced, summary_data |-> data]
             ELSE LET rate == Dec(r.value.v, 0)
                      cost == DecMul(QuantityOf(row.quantity), rate)
                  IN  PriceRows(self_rates, rows, i + 1,
                                Append(priced,
                                       [element_type |-> row.element_type,
                                        material |-> row.material,
                                        quantity |-> row.quantity,
                                        storey |-> row.storey,
                                        Rate |-> rate, Total_Cost |-> cost]),
                                Append(data,
                                       [Element_Type |-> row.element_type,
                                        Storey |-> row.storey,
                                        Material |-> row.material,
                                        Total_Cost |-> cost]))

\* The loop over the sheets (lines 79-122): a sheet is kept when all its
\* rows were priced; an exception in a sheet is logged and the loop goes on.
RECURSIVE PriceSheets(_, _, _, _, _)
PriceSheets(self_rates, xl, i, dfs, data) ==
    IF i > Len(xl) THEN [processed_dfs |-> dfs, summary_data |-> data]
    ELSE IF xl[i].name \in SkippedSheets \/ xl[i].rows = <<>>
         THEN PriceSheets(self_rates, xl, i + 1, dfs, data)
    ELSE LET p == PriceRows(self_rates, xl[i].rows, 1, <<>>, data)
         IN  IF p.status = "ok"
             THEN PriceSheets(self_rates, xl, i + 1,
                              Append(dfs, [name |-> xl[i].name, rows |-> p.rows]),
                              p.summary_data)
             ELSE PriceSheets(self_rates, xl, i + 1, dfs, p.summary_data)

\* summary_df['Total Cost'].sum()
RECURSIVE SumCosts(_, _)
SumCosts(data, i) ==
    IF i > Len(data) THEN Dec(0, 0) ELSE DecAdd(data[i].Total_Cost, SumCosts(data, i + 1))

\* summary_df.groupby(col)['Total Cost'].sum(): one row per key; groupby
\* leaves out the rows whose key is NaN.
GroupSum(data, col) ==
    { [Category |-> k,
       Total_Cost |-> SumCosts(SelectSeq(data, LAMBDA d : d[col] = k), 1)] :
      k \in {data[i][col] : i \in 1..Len(data)} \ {NaN} }

EmptySummary == [empty |-> TRUE, by_type |-> {}, by_storey |-> {}, grand_total |-> Dec(0, 0)]

\* The cost summary (lines 124-149).
CostSummary(data) ==
    IF data # <<>>
    THEN [empty |-> FALSE,
          by_type |-> GroupSum(data, "Element_Type"),
          by_storey |-> GroupSum(data, "Storey"),
          grand_total |-> SumCosts(data, 1)]
    ELSE EmptySummary

HasSheet(xl, name) == \E i \in 1..Len(xl) : xl[i].name = name

\* _write_priced_boq: the sheets written, in order.
_write_priced_boq(dfs, cost_summary, original_xl) ==
    dfs
    \o << [name |-> <<"Cost Estimation">>, rows |-> <<cost_summary>>] >>
    \o (IF HasSheet(original_xl, <<"Project Information">>)
        THEN << [name |-> <<"Project Information">>, rows |-> <<>>] >> ELSE <<>>)
    \o (IF HasSheet(original_xl, <<"Summary">>)
        THEN << [name |-> <<"Quantity Summary">>, rows |-> <<>>] >> ELSE <<>>)

\* process_boq on the sheets of an existing workbook.
process_boq(self_rates, xl) ==
    LET p == PriceSheets(self_rates, xl, 1, <<>>, <<>>)
        cost_summary == CostSummary(p.summary_data)
    IN  [processed_dfs |-> p.processed_dfs,
         summary_data |-> p.summary_data,
         final_summary |-> cost_summary,
         written |-> _write_priced_boq(p.processed_dfs, cost_summary, xl)]

\* The file at output_path: absent, or the sheets the last writer saved;
\* partial when the writer was interrupted.
NoDocument == [exists |-> FALSE, partial |-> FALSE, sheets |-> <<>>]
Document(written) == [exists |-> TRUE, partial |-> FALSE, sheets |-> written]

-----------------------------------------------------------------------------
(* ifc_reader.py *)

\* The factors get_unit_scale_factor returns.
Milli == Dec(1, 3)    \* 0.001
Centi == Dec(1, 2)    \* 0.01
Metre == Dec(1, 0)    \* 1.0

\* unit.is_a('IfcNamedUnit'): the named units of the schema.
IsNamedUnit(u) ==
    u.cls \in {"IfcSIUnit", "IfcConversionBasedUnit", "IfcContextDependentUnit"}

\* hasattr(unit, 'UnitType') and unit.UnitType == 'LENGTHUNIT'
IsLengthUnit(u) == u.unit_type = Some("LENGTHUNIT")

\* str.upper() on the tokens of a name.
UpperTok(t) ==
    CASE t = "milli" -> "MILLI"
      [] t = "centi" -> "CENTI"
      [] t = "metre" -> "METRE"
      [] t = "meter" -> "METER"
      [] t = "foot"  -> "FOOT"
      [] OTHER -> t

Upper(name) == [i \in 1..Len(name) |-> UpperTok(name[i])]

\* The first loop (lines 199-213): the first named length unit whose name
\* holds METER or METRE decides, by MILLI / CENTI in the name.
RECURSIVE NameLoop(_, _)
NameLoop(units, i) ==
    IF i > Len(units) THEN None
    ELSE LET u == units[i]
             name == IF Truthy(u.name) THEN Upper(u.name.val) ELSE <<>>
         IN  IF /\ IsNamedUnit(u) /\ IsLengthUnit(u) /\ Truthy(u.name)
                /\ (Contains(name, "METER") \/ Contains(name, "METRE"))
             THEN IF Contains(name, "MILLI") THEN Some(Milli)
                  ELSE IF Contains(name, "CENTI") THEN Some(Centi)
                  ELSE Some(Metre)
             ELSE NameLoop(units, i + 1)

\* str(getattr(unit, 'Prefix', '')).upper(): 'NONE' for an absent prefix.
PrefixStr(u) == IF u.prefix.some THEN UpperTok(u.prefix.val) ELSE "NONE"

\* The second loop (lines 215-225): the first IfcSIUnit of type LENGTHUNIT
\* decides, by its prefix.
RECURSIVE SILoop(_, _)
SILoop(units, i) ==
    IF i > Len(units) THEN None
    ELSE LET u == units[i]
         IN  IF u.cls = "IfcSIUnit" /\ IsLengthUnit(u)
             THEN IF PrefixStr(u) = "MILLI" THEN Some(Milli)
                  ELSE IF PrefixStr(u) = "CENTI" THEN Some(Centi)
                  ELSE Some(Metre)
             ELSE SILoop(units, i + 1)

\* A variant of get_unit_scale_factor without the try/except: a failure
\* while reading the metadata leaves the method (mutant).
GetUnitScaleFactorUnguarded(file) ==
    IF ~file.loaded \/ file.project = "raises" \/ file.context = "raises"
    THEN [status |-> "raised"]
    ELSE IF file.project = "absent" \/ file.context # "units"
    THEN [status |-> "ok", value |-> Milli]
    ELSE LET r1 == NameLoop(file.units, 1)
             r2 == SILoop(file.units, 1)
         IN  [status |-> "ok",
              value |-> IF r1.some THEN r1.val ELSE IF r2.some THEN r2.val ELSE Milli]

\* get_unit_scale_factor: RuntimeError without a loaded file; 0.001 without
\* a project, without a unit context, when reading the metadata raises and
\* when neither loop decides.
get_unit_scale_factor(file) ==
    IF ~file.loaded THEN [status |-> "raised"]
    ELSE IF file.project = "raises" THEN [status |-> "ok", value |-> Milli]
    ELSE IF file.project = "absent" THEN [status |-> "ok", value |-> Milli]
    ELSE IF file.context # "units" THEN [status |-> "ok", value |-> Milli]
    ELSE LET r1 == NameLoop(file.units, 1)
             r2 == SILoop(file.units, 1)
         IN  [status |-> "ok",
              value |-> IF r1.some THEN r1.val ELSE IF r2.some THEN r2.val ELSE Milli]

-----------------------------------------------------------------------------
(* Inputs of the extractor *)

MaxQtoSets == 2
MaxPsets == 1
MaxElems == 3

SeqsUpTo(S, n) == UNION {[1..k -> S] : k \in 0..n}

QEntry(name, kind, value) == [name |-> name, kind |-> kind, value |-> value]

\* Quantity sets an element may carry (IfcElementQuantity).
QtoSetChoices ==
    { <<QEntry("NetVolume", "IfcQuantityVolume", PyNum(2))>>,
      <<QEntry("NetVolume", "IfcQuantityVolume", PyStr),
        QEntry("GrossVolume", "IfcQuantityVolume", PyNum(-3))>>,
      <<QEntry("NetArea", "IfcQuantityArea", PyNum(4)),
        QEntry("Length", "IfcQuantityLength", PyNum(5))>>,
      <<QEntry("Foo", "IfcQuantityVolume", PyNum(6))>>,
      <<QEntry("GrossVolume", "IfcQuantityVolume", PyNum(7)),
        QEntry("Bar", "IfcQuantityArea", PyNone)>> }

QtoChoices ==
    {[raises |-> TRUE, sets |-> <<>>]}
    \cup {[raises |-> FALSE, sets |-> s] : s \in SeqsUpTo(QtoSetChoices, MaxQtoSets)}

\* Property sets an element may carry.
PsetChoicesOne ==
    { [name |-> <<"Qto", "_", "Wall", "Base", "Quantities">>,
       props |-> <<QEntry("NetVolume", "", PyNum(8)), QEntry("NetArea", "", PyNumStr(9))>>],
      [name |-> <<"Pset", "_", "Wall", "Common">>,
       props |-> <<QEntry("NetVolume", "", PyNum(10))>>],
      [name |-> <<"Base", "Quantities">>,
       props |-> <<QEntry("Length", "", PyStr), QEntry("Width", "", PyNum(11))>>] }

PsetChoices ==
    {[raises |-> TRUE, sets |-> <<>>]}
    \cup {[raises |-> FALSE, sets |-> s] : s \in SeqsUpTo(PsetChoicesOne, MaxPsets)}

GRaises == [k |-> "raises", v |-> 0]
NoGeom(shape) == [shape |-> shape, volume |-> GRaises, area |-> GRaises, bbox |-> GRaises]

\* What the geometry kernel may give for an element.
GeomChoices ==
    { NoGeom("raises"), NoGeom("none"),
      [shape |-> "ok", volume |-> PyNum(12), area |-> PyNum(13),
       bbox |-> [k |-> "num", v |-> <<0, 0, 0, 1, 2, 14>>]],
      [shape |-> "ok", volume |-> GRaises, area |-> PyNum(13), bbox |-> GRaises],
      [shape |-> "ok", volume |-> PyNum(0), area |-> PyNum(0),
       bbox |-> [k |-> "num", v |-> <<1, 1, 1, 1, 1, 1>>]],
      [shape |-> "ok", volume |-> PyNum(-1), area |-> GRaises,
       bbox |-> [k |-> "num", v |-> <<0, 0, 0, 1, 2, 14>>]] }

ElementTypes == {<<"Ifc", "Wall">>, <<"Ifc", "Beam">>}

\* Unit scale factors: 0.001, 0.01 and 1.0.
ScaleFactors == {Dec(1, 3), Dec(1, 2), Dec(1, 0)}

OneMaterial(name) == [raises |-> FALSE, list |-> <<[k |-> "Name", name |-> Some(name)]>>]
StoreyOf(name) == [raises |-> FALSE, val |-> Some(name)]

MkElement(id, fault, type, predefined, qtos, psets, geom, materials, storey) ==
    [id |-> id, fault |-> fault, type |-> type, predefined |-> predefined,
     qtos |-> qtos, psets |-> psets, geom |-> geom, materials |-> materials,
     storey |-> storey]

\* Elements with every combination of the three quantity sources.
SourceElements ==
    { MkElement(1, "none", t, <<>>, q, p, g, OneMaterial(<<"Concrete">>), StoreyOf(<<"L1">>)) :
        t \in ElementTypes, q \in QtoChoices, p \in PsetChoices, g \in GeomChoices }

NoQto == [raises |-> FALSE, sets |-> <<>>]
NoPset == [raises |-> FALSE, sets |-> <<>>]
WallQto == [raises |-> FALSE,
            sets |-> <<(<<QEntry("NetVolume", "IfcQuantityVolume", PyNum(2))>>)>>]
BeamGeom == [shape |-> "ok", volume |-> PyNum(12), area |-> PyNum(13),
             bbox |-> [k |-> "num", v |-> <<0, 0, 0, 1, 2, 14>>]]

\* Elements that differ in the accessors, the material and the storey.
OtherElements ==
    { MkElement(2, "id", <<"Ifc", "Wall">>, <<>>, WallQto, NoPset, NoGeom("raises"),
                OneMaterial(<<"Concrete">>), StoreyOf(<<"L1">>)),
      MkElement(3, "is_a", <<"Ifc", "Wall">>, <<>>, WallQto, NoPset, NoGeom("raises"),
                OneMaterial(<<"Concrete">>), StoreyOf(<<"L1">>)),
      MkElement(4, "none", <<"Ifc", "Wall">>, <<"SOLIDWALL">>, WallQto, NoPset, NoGeom("raises"),
                [raises |-> TRUE, list |-> <<>>], [raises |-> TRUE, val |-> None]),
      MkElement(5, "none", <<"Ifc", "Beam">>, <<>>, NoQto, NoPset, BeamGeom,
                [raises |-> FALSE,
                 list |-> <<[k |-> "other", name |-> None],
                            [k |-> "MaterialSelect", name |-> Some(<<"Steel">>)]>>],
                [raises |-> FALSE, val |-> None]),
      MkElement(6, "none", <<"Ifc", "Wall">>, <<>>, NoQto, NoPset, NoGeom("none"),
                [raises |-> FALSE, list |-> <<>>], StoreyOf(<<"L2">>)) }

Elements == SourceElements \cup OtherElements

NoResult == [status |-> "none"]

-----------------------------------------------------------------------------
(* Specification of extract_quantities on one element *)

NoElement ==
    MkElement(0, "none", <<>>, <<>>, NoQto, NoPset, NoGeom("none"),
              [raises |-> FALSE, list |-> <<>>], [raises |-> FALSE, val |-> None])

\* The parts of the state a specification does not use.
ExtractIdle ==
    /\ element = NoElement
    /\ storey_arg = None
    /\ quantities = NoResult

BatchIdle ==
    /\ elements = <<>>
    /\ all_quantities = NoResult

BoqIdle ==
    /\ self_quantities = <<>>
    /\ boq_items = <<>>
    /\ grouping_level = "type"
    /\ grouped = <<>>
    /\ boq_df = EmptyDf
    /\ numbered = NoResult
    /\ summary = NoResult
    /\ sheets = NoResult

NoArgs == [given |-> FALSE]

PrimaryIdle ==
    /\ pq_args = NoArgs
    /\ pq_result = NoResult

RateIdle ==
    /\ rates = JObj(<<>>)
    /\ rate_call = NoArgs
    /\ rate_result = NoResult

\* IFCReader before load_file.
NoFile == [loaded |-> FALSE, project |-> "absent", context |-> "none", units |-> <<>>]

UnitIdle ==
    /\ ifc_file = NoFile
    /\ scale_result = NoResult

CostIdle ==
    /\ workbook = <<>>
    /\ processed_dfs = <<>>
    /\ summary_data = <<>>
    /\ final_summary = EmptySummary

RunIdle ==
    /\ run_args = NoArgs
    /\ output_document = NoDocument
    /\ run_result = NoResult

InitExtract ==
    /\ pc = "start"
    /\ unit_scale_factor \in ScaleFactors
    /\ element \in Elements
    /\ storey_arg \in {None, Some(<<"L1">>)}
    /\ quantities = NoResult
    /\ BatchIdle /\ BoqIdle /\ PrimaryIdle /\ RateIdle /\ UnitIdle
    /\ CostIdle /\ RunIdle

ExtractQuantities ==
    /\ pc = "start"
    /\ quantities' = extract_quantities(element, storey_arg, unit_scale_factor)
    /\ pc' = "done"
    /\ UNCHANGED <<costVars, runVars, unitVars, unit_scale_factor, element, storey_arg,
                   batchVars, boqVars, primaryVars, rateVars>>

NextExtract == ExtractQuantities

vars == <<pc, extractVars, batchVars, boqVars, primaryVars, rateVars, unitVars, costVars,
          runVars>>

SpecExtract == InitExtract /\ [][NextExtract]_vars

-----------------------------------------------------------------------------
(* Specification of extract_all_quantities on a list of elements *)

InitBatch ==
    /\ pc = "start"
    /\ unit_scale_factor \in ScaleFactors
    /\ ExtractIdle
    /\ elements \in SeqsUpTo(OtherElements, MaxElems)
    /\ all_quantities = NoResult
    /\ BoqIdle /\ PrimaryIdle /\ RateIdle /\ UnitIdle
    /\ CostIdle /\ RunIdle

ExtractAllQuantities ==
    /\ pc = "start"
    /\ \E use_fn \in BOOLEAN :
          all_quantities' = extract_all_quantities(elements, use_fn, unit_scale_factor)
    /\ pc' = "done"
    /\ UNCHANGED <<costVars, runVars, unitVars, extractVars, elements, boqVars, primaryVars,
                   rateVars>>

NextBatch == ExtractAllQuantities

SpecBatch == InitBatch /\ [][NextBatch]_vars

-----------------------------------------------------------------------------
(* Specification of _determine_primary_quantity *)

MaxCount == 2

PrimaryTypes ==
    { <<"Ifc", "Wall">>, <<"Ifc", "Slab">>, <<"Ifc", "Footing">>, <<"Ifc", "Column">>,
      <<"Ifc", "Beam">>, <<"Ifc", "Roof">>, <<"Ifc", "CurtainWall">>, <<"Ifc", "Railing">>,
      <<"Ifc", "Pile">>, <<"Ifc", "Door">>, <<"Ifc", "Beam", "_", "T">> }

\* Totals of a group: zero, positive (also below the rounding step), negative.
PrimaryVolumes == {Zero, Dec(4, 4), Dec(7, 0), Dec(-1, 0)}
PrimaryAreas == {Zero, Dec(12, 1), Dec(-1, 0)}
PrimaryLengths == {Zero, Dec(25, 1), Dec(-1, 0)}

InitPrimary ==
    /\ pc = "start"
    /\ unit_scale_factor = Dec(1, 3)
    /\ ExtractIdle /\ BatchIdle /\ BoqIdle /\ RateIdle /\ UnitIdle
    /\ CostIdle /\ RunIdle
    /\ pq_args \in [given : {TRUE}, volume : PrimaryVolumes, area : PrimaryAreas,
                    length : PrimaryLengths, count : 1..MaxCount,
                    element_type : PrimaryTypes]
    /\ pq_result = NoResult

DeterminePrimaryQuantity ==
    /\ pc = "start"
    /\ pq_result' = [status |-> "ok",
                     value |-> _determine_primary_quantity(
                                  pq_args.volume, pq_args.area, pq_args.length,
                                  pq_args.count, pq_args.element_type)]
    /\ pc' = "done"
    /\ UNCHANGED <<costVars, runVars, unitVars, extractVars, batchVars, boqVars, pq_args, rateVars>>

NextPrimary == DeterminePrimaryQuantity

SpecPrimary == InitPrimary /\ [][NextPrimary]_vars

-----------------------------------------------------------------------------
(* Specification of the BOQ generator and the exporter *)

MaxRecords == 3

MkRecord(id, type, storey, material, volume, area, length) ==
    [element_id |-> id, type |-> type, volume |-> volume, area |-> area,
     length |-> length, count |-> 1, material |-> material, storey |-> storey,
     category |-> type]

\* Records as extract_quantities returns them (count is always 1).
BoqRecords ==
    { MkRecord(1, <<"Ifc", "Wall">>, Some(<<"L1">>), Some(<<"Concrete">>),
               Some(Dec(2, 0)), None, None),
      MkRecord(2, <<"Ifc", "Wall">>, None, Some(<<"Concrete">>),
               Some(Dec(35, 1)), None, None),
      MkRecord(3, <<"Ifc", "Wall">>, Some(<<"L2">>), None,
               Some(Dec(15, 1)), Some(Dec(12, 1)), Some(Dec(3, 0))),
      MkRecord(4, <<"Ifc", "Beam">>, Some(<<"L1">>), Some(<<"Steel">>),
               None, Some(Dec(12, 1)), Some(Dec(25, 1))),
      MkRecord(5, <<"Ifc", "Roof">>, Some(<<"L2">>), None,
               Some(Dec(4, 4)), Some(Dec(16, 4)), None),
      MkRecord(6, <<"Ifc", "Door">>, Some(<<>>), None, None, None, None),
      MkRecord(7, <<"Ifc", "Pile">>, Some(<<"L1", "|", "A">>), Some(<<"Concrete">>),
               Some(Dec(-3, 0)), None, Some(Dec(3, 0))),
      MkRecord(8, <<"Ifc", "Door">>, Some(<<"L1">>), Some(<<"Steel">>),
               Some(Dec(0, 0)), Some(Dec(4, 4)), None),
      MkRecord(9, <<"Ifc", "Door">>, Some(<<"L2">>), Some(<<"Steel">>),
               Some(Dec(10004, 4)), None, None) }

GroupingLevels == {"type", "storey", "material", "all", "category"}

InitBoq ==
    /\ pc = "new"
    /\ unit_scale_factor = Dec(1, 3)
    /\ ExtractIdle /\ BatchIdle /\ PrimaryIdle /\ RateIdle /\ UnitIdle
    /\ CostIdle /\ RunIdle
    /\ BoqIdle

\* load_quantities
LoadQuantities ==
    /\ pc = "new"
    /\ \E qs \in SeqsUpTo(BoqRecords, MaxRecords) : self_quantities' = qs
    /\ pc' = "loaded"
    /\ UNCHANGED <<costVars, runVars, unitVars, extractVars, batchVars, primaryVars, rateVars,
                   boq_items, grouping_level, grouped, boq_df, numbered, summary, sheets>>

\* generate_boq
GenerateBoq ==
    /\ pc = "loaded"
    /\ \E level \in GroupingLevels :
          LET r == generate_boq(self_quantities, boq_items, level)
          IN  /\ grouping_level' = level
              /\ boq_items' = r.boq_items
              /\ grouped' = r.grouped
              /\ boq_df' = r.df
    /\ pc' = "generated"
    /\ UNCHANGED <<costVars, runVars, unitVars, extractVars, batchVars, primaryVars, rateVars,
                   self_quantities, numbered, summary, sheets>>

\* add_item_numbers on the frame generate_boq returned
AddItemNumbers ==
    /\ pc = "generated"
    /\ numbered' = add_item_numbers(boq_df)
    /\ pc' = "numbered"
    /\ UNCHANGED <<costVars, runVars, unitVars, extractVars, batchVars, primaryVars, rateVars,
                   self_quantities, boq_items, grouping_level, grouped, boq_df, summary,
                   sheets>>

\* get_summary on the frame generate_boq returned
GetSummary ==
    /\ pc \in {"generated", "numbered"}
    /\ summary' = [status |-> "ok", value |-> get_summary(boq_df)]
    /\ pc' = "summarised"
    /\ UNCHANGED <<costVars, runVars, unitVars, extractVars, batchVars, primaryVars, rateVars,
                   self_quantities, boq_items, grouping_level, grouped, boq_df, numbered,
                   sheets>>

\* export_boq(boq_df, summary, project_info)
ExportBoq ==
    /\ pc = "summarised"
    /\ \E project_info \in BOOLEAN :
          sheets' = [status |-> "ok",
                     list |-> export_boq(boq_df, Some(summary.value), project_info)]
    /\ pc' = "exported"
    /\ UNCHANGED <<costVars, runVars, unitVars, extractVars, batchVars, primaryVars, rateVars,
                   self_quantities, boq_items, grouping_level, grouped, boq_df, numbered,
                   summary>>

NextBoq == LoadQuantities \/ GenerateBoq \/ AddItemNumbers \/ GetSummary \/ ExportBoq

SpecBoq == InitBoq /\ [][NextBoq]_vars

-----------------------------------------------------------------------------
(* Specification of repeated load_quantities and generate_boq calls *)

MaxSessionRecords == 2

\* The records of a session: two walls on different storeys and a beam.
SessionRecords == {q \in BoqRecords : q.element_id \in {1, 3, 4}}

SessionLevels == {"type", "storey"}

InitSession ==
    /\ pc = "new"
    /\ unit_scale_factor = Dec(1, 3)
    /\ ExtractIdle /\ BatchIdle /\ PrimaryIdle /\ RateIdle /\ UnitIdle
    /\ CostIdle /\ RunIdle
    /\ BoqIdle

\* load_quantities, at any time
ReloadQuantities ==
    /\ pc \in {"new", "loaded", "generated"}
    /\ \E qs \in SeqsUpTo(SessionRecords, MaxSessionRecords) : self_quantities' = qs
    /\ pc' = "loaded"
    /\ UNCHANGED <<costVars, runVars, unitVars, extractVars, batchVars, primaryVars, rateVars,
                   boq_items, grouping_level, grouped, boq_df, numbered, summary, sheets>>

\* generate_boq, at any time
RegenerateBoq ==
    /\ pc \in {"new", "loaded", "generated"}
    /\ \E level \in SessionLevels :
          LET r == generate_boq(self_quantities, boq_items, level)
          IN  /\ grouping_level' = level
              /\ boq_items' = r.boq_items
              /\ grouped' = r.grouped
              /\ boq_df' = r.df
    /\ pc' = "generated"
    /\ UNCHANGED <<costVars, runVars, unitVars, extractVars, batchVars, primaryVars, rateVars,
                   self_quantities, numbered, summary, sheets>>

NextSession == ReloadQuantities \/ RegenerateBoq

SpecSession == InitSession /\ [][NextSession]_vars

-----------------------------------------------------------------------------
(* Specification of the rate lookup *)

TypeWall == <<"Ifc", "Wall">>
TypeBeam == <<"Ifc", "Beam">>
TypeDoor == <<"Ifc", "Door">>

KConcrete == <<"C", "o", "n", "c", "r", "e", "t", "e">>
KConcreteUpper == <<"C", "O", "N", "C", "R", "E", "T", "E">>
KSteel == <<"S", "t", "e", "e", "l">>
KStainlessSteel == <<"S", "t", "a", "i", "n", "l", "e", "s", "s", " ", "S", "t", "e", "e", "l">>
MReadyMix ==
    << "R", "e", "a", "d", "y", " ", "M", "i", "x", " ", "C", "o", "n", "c", "r", "e", "t",
       "e", " ", "G", "r", "a", "d", "e", " ", "3", "0" >>
MDefaultMix == <<"D", "e", "f", "a", "u", "l", "t", " ", "M", "i", "x">>
MTimber == <<"T", "i", "m", "b", "e", "r">>

KV(key, value) == [key |-> key, value |-> value]

\* Rate files: absent, unparsable, well-formed tables, malformed tables.
RateFiles ==
    { [readable |-> FALSE, json |-> JObj(<<>>)],
      [readable |-> TRUE,
       json |-> JObj(<<KV(TypeWall, JObj(<<KV(KConcrete, JNum(50)), KV(DefaultKey, JNum(10))>>))>>)],
      [readable |-> TRUE,
       json |-> JObj(<<KV(TypeWall, JObj(<<KV(DefaultKey, JNum(10)), KV(KSteel, JNum(70)),
                                           KV(KStainlessSteel, JNum(90))>>)),
                       KV(TypeBeam, JObj(<<KV(KStainlessSteel, JNum(90)), KV(KSteel, JNum(70))>>))>>)],
      [readable |-> TRUE,
       json |-> JObj(<<KV(TypeWall, JObj(<<KV(KConcreteUpper, JNum(55))>>)),
                       KV(TypeBeam, JObj(<<>>))>>)],
      [readable |-> TRUE, json |-> JObj(<<KV(TypeWall, JNum(50)), KV(TypeBeam, JNum(0))>>)],
      [readable |-> TRUE, json |-> JList] }

RateTypes == {TypeWall, TypeBeam, TypeDoor}
RateMaterials ==
    { None, Some(<<>>), Some(MReadyMix), Some(KSteel), Some(KStainlessSteel),
      Some(Lower(KConcrete)), Some(MDefaultMix), Some(MTimber) }

InitRate ==
    /\ pc = "new"
    /\ unit_scale_factor = Dec(1, 3)
    /\ ExtractIdle /\ BatchIdle /\ BoqIdle /\ PrimaryIdle /\ UnitIdle
    /\ CostIdle /\ RunIdle
    /\ RateIdle

\* load_rates
LoadRates ==
    /\ \E file \in RateFiles : rates' = load_rates(file)
    /\ pc' = "loaded"
    /\ rate_call' = NoArgs
    /\ rate_result' = NoResult
    /\ UNCHANGED <<costVars, runVars, unitVars, extractVars, batchVars, boqVars, primaryVars>>

\* get_rate
GetRate ==
    /\ \E t \in RateTypes, m \in RateMaterials :
          /\ rate_call' = [given |-> TRUE, element_type |-> t, material |-> m]
          /\ rate_result' = get_rate(rates, t, m)
    /\ pc' = "called"
    /\ UNCHANGED <<costVars, runVars, unitVars, extractVars, batchVars, boqVars, primaryVars,
                   rates>>

NextRate == LoadRates \/ GetRate

SpecRate == InitRate /\ [][NextRate]_vars

-----------------------------------------------------------------------------
(* Specification of process_boq *)

MaxSheets == 2
MaxSheetRows == 2

MkRow(type, material, quantity, storey) ==
    [element_type |-> type, material |-> material, quantity |-> quantity, storey |-> storey]

\* Rows of BOQ sheets as read_excel gives them: a material cell or a storey
\* cell may be empty, a quantity cell may hold text.
CostRows ==
    { MkRow(Some(TypeWall), Some(KSteel), Number(Dec(2, 0)), Some(<<"L1">>)),
      MkRow(Some(TypeWall), NaN, Number(Dec(15, 1)), Some(<<"L1">>)),
      MkRow(Some(TypeBeam), Some(KStainlessSteel), Some(<<"t", "b", "c">>), Some(<<"L2">>)),
      MkRow(Some(TypeBeam), Some(KSteel), Number(Dec(25, 1)), NaN) }

CostSheetNames == << <<"Wall">>, <<"Beam">>, <<"Bill of Quantities">> >>

\* The sheets that export_boq adds after the BOQ sheets.
InfoSheets ==
    << [name |-> <<"Summary">>, rows |-> <<>>],
       [name |-> <<"Project Information">>, rows |-> <<>>] >>

Workbooks ==
    { [i \in 1..Len(rs) |-> [name |-> CostSheetNames[i], rows |-> rs[i]]] \o tail :
        rs \in SeqsUpTo(SeqsUpTo(CostRows, MaxSheetRows), MaxSheets),
        tail \in {<<>>, InfoSheets} }

\* Rate files: absent, two well-formed tables, one with bare numbers.
CostRateFiles == {f \in RateFiles : ~f.readable \/ HasKey(f.json.entries, TypeBeam)}

InitCost ==
    /\ pc = "new"
    /\ unit_scale_factor = Dec(1, 3)
    /\ ExtractIdle /\ BatchIdle /\ BoqIdle /\ PrimaryIdle /\ RateIdle /\ UnitIdle
    /\ CostIdle /\ RunIdle

\* CostEstimator(rates_path)
NewEstimator ==
    /\ pc = "new"
    /\ \E file \in CostRateFiles : rates' = load_rates(file)
    /\ pc' = "loaded"
    /\ UNCHANGED <<costVars, runVars, unitVars, extractVars, batchVars, boqVars, primaryVars,
                   rate_call, rate_result>>

\* process_boq(input_path, output_path) on an existing workbook
ProcessBoq ==
    /\ pc = "loaded"
    /\ \E xl \in Workbooks :
          LET r == process_boq(rates, xl)
          IN  /\ workbook' = xl
              /\ processed_dfs' = r.processed_dfs
              /\ summary_data' = r.summary_data
              /\ final_summary' = r.final_summary
              /\ output_document' = Document(r.written)
    /\ pc' = "priced"
    /\ UNCHANGED <<unitVars, extractVars, batchVars, boqVars, primaryVars, rateVars,
                   run_args, run_result>>

NextCost == NewEstimator \/ ProcessBoq

SpecCost == InitCost /\ [][NextCost]_vars

-----------------------------------------------------------------------------
(* Specification of process_ifc_to_boq *)

MaxRunRecords == 2

\* Records as extract_all_quantities returns them.
RunRecords ==
    { MkRecord(1, TypeWall, Some(<<"L1">>), Some(KSteel), Some(Dec(2, 0)), None, None),
      MkRecord(2, TypeWall, Some(<<"L2">>), None, Some(Dec(15, 1)), None, None),
      MkRecord(3, TypeBeam, Some(<<"L1">>), Some(KStainlessSteel), None, None,
               Some(Dec(25, 1))) }

\* The --grouping choices of the command line.
RunGroupingLevels == {"type", "storey", "material", "all"}

\* A string written by to_excel and read by read_excel: an empty string
\* comes back as NaN.
ReadCell(str) == IF str = <<>> THEN NaN ELSE Some(str)

\* The workbook export_boq wrote, as pd.ExcelFile and read_excel give it.
ReadBack(written) ==
    [i \in 1..Len(written) |->
        [name |-> written[i].name,
         rows |-> IF written[i].name \in SkippedSheets THEN <<>>
                  ELSE [j \in 1..Len(written[i].rows) |->
                           MkRow(ReadCell(written[i].rows[j].element_type),
                                 ReadCell(written[i].rows[j].material),
                                 Number(written[i].rows[j].quantity),
                                 ReadCell(written[i].rows[j].storey))]]]

\* What a writer that is interrupted after n sheets leaves at output_path:
\* the with block saves the sheets written so far.
Interrupted(written, n) ==
    [exists |-> TRUE, partial |-> TRUE, sheets |-> SubSeq(written, 1, n)]

InitRun ==
    /\ pc = "start"
    /\ unit_scale_factor = Dec(1, 3)
    /\ ExtractIdle /\ BatchIdle /\ BoqIdle /\ PrimaryIdle /\ RateIdle /\ UnitIdle
    /\ CostIdle
    /\ \E cost_estimation \in BOOLEAN, file \in CostRateFiles, level \in RunGroupingLevels :
          run_args = [given |-> TRUE, cost_estimation |-> cost_estimation,
                      rates_path |-> file, grouping_level |-> level]
    /\ output_document = NoDocument
    /\ run_result = NoResult

\* Steps 1 and 2 (lines 61-78): IFCReader opens the document, or raises
\* FileNotFoundError or ValueError, which ends the run with False (144-149).
RunRead ==
    /\ pc = "start"
    /\ \E opened \in BOOLEAN :
          IF opened
          THEN pc' = "read" /\ run_result' = run_result
          ELSE pc' = "done" /\ run_result' = Returned(FALSE)
    /\ UNCHANGED <<costVars, unitVars, extractVars, batchVars, boqVars, primaryVars, rateVars,
                   run_args, output_document>>

\* Step 3 (lines 80-90): the records of the selected elements; an exception
\* that leaves extract_all_quantities ends the run with False (150-152).
RunExtract ==
    /\ pc = "read"
    /\ \/ /\ \E qs \in SeqsUpTo(RunRecords, MaxRunRecords) :
                all_quantities' = [status |-> "ok", list |-> qs]
          /\ pc' = "extracted"
          /\ run_result' = run_result
       \/ /\ all_quantities' = [status |-> "raised", list |-> <<>>]
          /\ pc' = "done"
          /\ run_result' = Returned(FALSE)
    /\ UNCHANGED <<costVars, unitVars, extractVars, elements, boqVars, primaryVars, rateVars,
                   run_args, output_document>>

\* Step 4 (lines 92-110): load_quantities, generate_boq and get_summary.
RunAggregate ==
    /\ pc = "extracted"
    /\ LET r == generate_boq(all_quantities.list, boq_items, run_args.grouping_level)
       IN  /\ self_quantities' = all_quantities.list
           /\ grouping_level' = run_args.grouping_level
           /\ boq_items' = r.boq_items
           /\ grouped' = r.grouped
           /\ boq_df' = r.df
           /\ summary' = [status |-> "ok", value |-> get_summary(r.df)]
    /\ pc' = "aggregated"
    /\ UNCHANGED <<costVars, runVars, unitVars, extractVars, batchVars, primaryVars, rateVars,
                   numbered, sheets>>

\* Step 5 (lines 112-115): export_boq writes the document; the writer may
\* fail to open output_path, or be interrupted after some sheets, and
\* either ends the run with False (150-152).
RunExport ==
    /\ pc = "aggregated"
    /\ LET written == export_boq(boq_df, Some(summary.value), TRUE)
       IN  \/ /\ sheets' = [status |-> "ok", list |-> written]
              /\ output_document' = Document(written)
              /\ pc' = "exported"
              /\ run_result' = run_result
           \/ /\ sheets' = [status |-> "raised", list |-> <<>>]
              /\ output_document' = output_document
              /\ pc' = "done"
              /\ run_result' = Returned(FALSE)
           \/ /\ \E n \in 0..(Len(written) - 1) :
                    /\ sheets' = [status |-> "raised", list |-> SubSeq(written, 1, n)]
                    /\ output_document' = Interrupted(written, n)
              /\ pc' = "done"
              /\ run_result' = Returned(FALSE)
    /\ UNCHANGED <<costVars, unitVars, extractVars, batchVars, primaryVars, rateVars,
                   self_quantities, boq_items, grouping_level, grouped, boq_df, numbered,
                   summary, run_args>>

\* Step 6 (lines 117-136): with cost_estimation, CostEstimator(rates_path)
\* and process_boq(output_path, output_path); process_boq may raise before
\* it writes, or its writer may be interrupted after some sheets; the
\* exception is logged and the run goes on.
RunCost ==
    /\ pc = "exported"
    /\ IF ~run_args.cost_estimation
       THEN UNCHANGED <<costVars, rates, output_document>>
       ELSE LET self_rates == load_rates(run_args.rates_path)
                xl == ReadBack(output_document.sheets)
                r == process_boq(self_rates, xl)
            IN  /\ rates' = self_rates
                /\ workbook' = xl
                /\ \/ /\ processed_dfs' = r.processed_dfs
                      /\ summary_data' = r.summary_data
                      /\ final_summary' = r.final_summary
                      /\ \/ output_document' = Document(r.written)
                         \/ \E n \in 0..(Len(r.written) - 1) :
                               output_document' = Interrupted(r.written, n)
                   \/ UNCHANGED <<processed_dfs, summary_data, final_summary,
                                  output_document>>
    /\ pc' = "returning"
    /\ UNCHANGED <<unitVars, extractVars, batchVars, boqVars, primaryVars, rate_call,
                   rate_result, run_args, run_result>>

\* return True (line 142)
RunReturn ==
    /\ pc = "returning"
    /\ run_result' = Returned(TRUE)
    /\ pc' = "done"
    /\ UNCHANGED <<costVars, unitVars, extractVars, batchVars, boqVars, primaryVars, rateVars,
                   run_args, output_document>>

NextRun == RunRead \/ RunExtract \/ RunAggregate \/ RunExport \/ RunCost \/ RunReturn

SpecRun == InitRun /\ [][NextRun]_vars

-----------------------------------------------------------------------------
(* Specification of get_unit_scale_factor *)

MaxUnits == 2

MkUnit(cls, unit_type, name, prefix) ==
    [cls |-> cls, unit_type |-> unit_type, name |-> name, prefix |-> prefix]

\* Units a unit assignment may hold.  An IfcSIUnit of type LENGTHUNIT has
\* the name METRE; one without a name is a file that leaves the attribute
\* unset.
UnitChoices ==
    { MkUnit("IfcSIUnit", Some("LENGTHUNIT"), Some(<<"METRE">>), Some("MILLI")),
      MkUnit("IfcSIUnit", Some("LENGTHUNIT"), Some(<<"METRE">>), Some("CENTI")),
      MkUnit("IfcSIUnit", Some("LENGTHUNIT"), Some(<<"METRE">>), None),
      MkUnit("IfcSIUnit", Some("AREAUNIT"), Some(<<"SQUARE_", "METRE">>), None),
      MkUnit("IfcSIUnit", Some("LENGTHUNIT"), None, Some("MILLI")),
      MkUnit("IfcSIUnit", Some("LENGTHUNIT"), None, Some("KILO")),
      MkUnit("IfcConversionBasedUnit", Some("LENGTHUNIT"), Some(<<"FOOT">>), None),
      MkUnit("IfcConversionBasedUnit", Some("LENGTHUNIT"), Some(<<"milli", "metre">>), None),
      MkUnit("IfcConversionBasedUnit", Some("LENGTHUNIT"), Some(<<"CENTI", "METER">>), None),
      MkUnit("IfcMonetaryUnit", None, None, None) }

\* Models: not loaded; by_type raising or finding no project; a project
\* without unit context or with one whose Units cannot be read; a project
\* with a list of units.
IfcFiles ==
    { NoFile,
      [loaded |-> TRUE, project |-> "raises", context |-> "none", units |-> <<>>],
      [loaded |-> TRUE, project |-> "absent", context |-> "none", units |-> <<>>],
      [loaded |-> TRUE, project |-> "present", context |-> "none", units |-> <<>>],
      [loaded |-> TRUE, project |-> "present", context |-> "raises", units |-> <<>>] }
    \cup { [loaded |-> TRUE, project |-> "present", context |-> "units", units |-> us] :
              us \in SeqsUpTo(UnitChoices, MaxUnits) }

InitUnit ==
    /\ pc = "start"
    /\ unit_scale_factor = Dec(1, 3)
    /\ ExtractIdle /\ BatchIdle /\ BoqIdle /\ PrimaryIdle /\ RateIdle
    /\ CostIdle /\ RunIdle
    /\ ifc_file \in IfcFiles
    /\ scale_result = NoResult

GetUnitScaleFactor ==
    /\ pc = "start"
    /\ scale_result' = get_unit_scale_factor(ifc_file)
    /\ pc' = "done"
    /\ UNCHANGED <<costVars, runVars, extractVars, batchVars, boqVars, primaryVars, rateVars,
                   ifc_file>>

NextUnit == GetUnitScaleFactor

SpecUnit == InitUnit /\ [][NextUnit]_vars

-----------------------------------------------------------------------------
(* Properties of extract_quantities *)

ExtractDone == pc = "done" /\ quantities.status = "ok"

\* The value v in source units, converted with scale^n.
Converted(v, n) ==
    LET s == unit_scale_factor
        mn == IF n = 1 THEN s.m ELSE IF n = 2 THEN s.m * s.m ELSE s.m * s.m * s.m
    IN  Some(Norm(Dec(v * mn, n * s.e)))

\* Positions <<set, entry>> of the valid numeric volume entries of the
\* element's quantity sets.
VolumeEntries(el) ==
    { p \in {<<i, j>> : i \in 1..Len(el.qtos.sets), j \in 1..2} :
        /\ p[2] <= Len(el.qtos.sets[p[1]])
        /\ el.qtos.sets[p[1]][p[2]].name \in {"NetVolume", "GrossVolume", "Volume"}
        /\ el.qtos.sets[p[1]][p[2]].value.k \in {"num", "numstr"} }

FirstVolumeEntry(el) ==
    LET P == VolumeEntries(el)
        p == CHOOSE a \in P : \A b \in P : a[1] < b[1] \/ (a[1] = b[1] /\ a[2] <= b[2])
    IN  el.qtos.sets[p[1]][p[2]].value.v

\* C1: when the quantity sets of the element hold a valid numeric volume
\* entry, the record's volume is the first such entry times scale^3,
\* whatever the property sets and the geometry hold.
C1_Tier1VolumeWins ==
    (ExtractDone /\ VolumeEntries(element) # {})
        => quantities.rec.volume = Converted(FirstVolumeEntry(element), 3)

\* C1 witness: tier 1 holds NetVolume 2, a scanned property set holds
\* NetVolume 8, the geometry has volume 12, and the record has 2 * 0.001^3.
C1_Witness ==
    /\ ExtractDone
    /\ VolumeEntries(element) # {}
    /\ ~IsNone(_extract_qto_properties(element).volume)
    /\ ~IsNone(_calculate_geometric_quantities(element).volume)
    /\ unit_scale_factor = Dec(1, 3)
    /\ quantities.rec.volume = Some(Dec(2, 9))

\* C2 (as claimed): every field that tier 1 left absent and for which the
\* quantity property sets hold a valid value is filled from them, also when
\* tier 1 supplied some other field; fields of tier 1 are kept.
C2_Tier2FillsEveryAbsentField ==
    ExtractDone =>
        LET t1 == _extract_ifc_element_quantities(element)
            t2 == _extract_qto_properties(element)
        IN  \A f \in {"volume", "area", "length"} :
                /\ ~IsNone(t1[f]) =>
                      quantities.rec[f] = Converted(t1[f].val.m, IF f = "volume" THEN 3 ELSE IF f = "area" THEN 2 ELSE 1)
                /\ (IsNone(t1[f]) /\ ~IsNone(t2[f])) =>
                      quantities.rec[f] = Converted(t2[f].val.m, IF f = "volume" THEN 3 ELSE IF f = "area" THEN 2 ELSE 1)

Power(f) == IF f = "volume" THEN 3 ELSE IF f = "area" THEN 2 ELSE 1

\* C3: when tiers 1 and 2 yield nothing and the geometry has a positive
\* volume, the record's volume is that volume times scale^3; and when tier 1
\* or tier 2 yields any measure, no field of the record comes from the
\* geometry.
C3_GeometricFallback ==
    ExtractDone =>
        LET t1 == _extract_ifc_element_quantities(element)
            t2 == _extract_qto_properties(element)
            g  == element.geom
        IN  /\ (IsEmptyQ(t1) /\ IsEmptyQ(t2) /\ g.shape = "ok"
                    /\ g.volume.k = "num" /\ g.volume.v > 0)
                  => quantities.rec.volume = Converted(g.volume.v, 3)
            /\ (~IsEmptyQ(t1) \/ ~IsEmptyQ(t2))
                  => \A f \in {"volume", "area", "length"} :
                        \/ IsNone(quantities.rec[f])
                        \/ /\ ~IsNone(t1[f])
                           /\ quantities.rec[f] = Converted(t1[f].val.m, Power(f))
                        \/ /\ ~IsNone(t2[f])
                           /\ quantities.rec[f] = Converted(t2[f].val.m, Power(f))

\* C3 witness: no quantity set, a property set that is not scanned, a shape
\* of volume 12, and the record's volume is 12 * 0.001^3.
C3_Witness ==
    /\ ExtractDone
    /\ IsEmptyQ(_extract_ifc_element_quantities(element))
    /\ IsEmptyQ(_extract_qto_properties(element))
    /\ Len(element.psets.sets) > 0
    /\ element.geom.shape = "ok"
    /\ unit_scale_factor = Dec(1, 3)
    /\ quantities.rec.volume = Some(Dec(12, 9))

\* The element with every source whose lookup fails replaced by a source
\* that holds nothing.
FailedSourcesEmptied(el) ==
    [el EXCEPT
        !.qtos = IF el.qtos.raises THEN [raises |-> FALSE, sets |-> <<>>] ELSE @,
        !.psets = IF el.psets.raises THEN [raises |-> FALSE, sets |-> <<>>] ELSE @,
        !.geom = IF el.geom.shape = "raises" THEN [@ EXCEPT !.shape = "none"] ELSE @,
        !.materials = IF el.materials.raises THEN [raises |-> FALSE, list |-> <<>>] ELSE @]

SomeSourceFails(el) ==
    \/ el.qtos.raises \/ el.psets.raises \/ el.materials.raises
    \/ el.geom.shape = "raises"
    \/ (el.geom.shape = "ok" /\ "raises" \in {el.geom.volume.k, el.geom.area.k, el.geom.bbox.k})

\* C11: for an element whose id() and is_a() answer, extract_quantities
\* returns a record; a source whose lookup fails contributes nothing and the
\* other sources are consulted as for an element without that source; a
\* measure of the geometry that fails leaves the other measures in place.
C11_ValidElementNeverRaises ==
    (pc = "done" /\ element.fault = "none") =>
        /\ quantities.status = "ok"
        /\ quantities =
              extract_quantities(FailedSourcesEmptied(element), storey_arg, unit_scale_factor)
        /\ element.materials.raises => IsNone(quantities.rec.material)
        /\ (/\ IsEmptyQ(_extract_ifc_element_quantities(element))
            /\ IsEmptyQ(_extract_qto_properties(element))
            /\ element.geom.shape = "ok" /\ element.geom.volume.k = "raises"
            /\ element.geom.area.k = "num" /\ element.geom.area.v > 0)
              => quantities.rec.area = Converted(element.geom.area.v, 2)

\* C11 witness: get_qtos fails, a scanned property set holds NetArea '9',
\* and the record returned has that area.
C11_Witness ==
    /\ pc = "done"
    /\ element.fault = "none"
    /\ element.qtos.raises
    /\ ~element.psets.raises
    /\ SomeSourceFails(element)
    /\ quantities.status = "ok"
    /\ unit_scale_factor = Dec(1, 0)
    /\ quantities.rec.area = Some(Dec(9, 0))

\* C12: every measure of a returned record is absent or a number >= 0,
\* whatever numbers the quantity sets, the property sets and the geometry
\* hold.
C12_MeasuresNonNegative ==
    ExtractDone =>
        \A f \in {"volume", "area", "length"} :
            IsNone(quantities.rec[f]) \/ quantities.rec[f].val.m >= 0

\* x * s, n times.
RECURSIVE TimesScale(_, _, _)
TimesScale(x, s, n) == IF n = 0 THEN x ELSE TimesScale(DecMul(x, s), s, n - 1)

\* C13: each measure of the record is the raw value the chain resolved
\* times scale (length), scale^2 (area), scale^3 (volume), and a measure the
\* chain left absent is absent in the record.
C13_ScaledOncePerDimension ==
    ExtractDone =>
        LET raw == ResolveRaw(element)
        IN  \A f \in {"volume", "area", "length"} :
                quantities.rec[f] =
                    IF IsNone(raw[f]) THEN None
                    ELSE Some(TimesScale(raw[f].val, unit_scale_factor, Power(f)))

\* C13 witness: tier 1 gives area 4 and length 5 (no volume), the scale is
\* 0.01, and the record has area 0.0004, length 0.05 and no volume.
C13_Witness ==
    /\ ExtractDone
    /\ unit_scale_factor = Dec(1, 2)
    /\ ResolveRaw(element) = [volume |-> None, area |-> Some(Dec(4, 0)), length |-> Some(Dec(5, 0))]
    /\ quantities.rec.volume = None
    /\ quantities.rec.area = Some(Dec(4, 4))
    /\ quantities.rec.length = Some(Dec(5, 2))

-----------------------------------------------------------------------------
(* Properties of extract_all_quantities *)

Resolvable(els) == {i \in 1..Len(els) : els[i].fault = "none"}

\* C9 (as claimed): whatever the list, the batch returns, and returns one
\* record for every element that resolves; a failing element is only dropped.
C9_BatchNeverAborts ==
    pc = "done" =>
        /\ all_quantities.status = "ok"
        /\ Len(all_quantities.list) = Cardinality(Resolvable(elements))

\* C10: the returned list holds one record per element that resolved, in the
\* order of the input: its k-th record is that of the k-th resolving element.
C10_OrderPreservingSubsequence ==
    (pc = "done" /\ all_quantities.status = "ok") =>
        LET R == Resolvable(elements)
            out == all_quantities.list
        IN  /\ Len(out) = Cardinality(R)
            /\ \A i \in R :
                  LET k == Cardinality({j \in R : j < i}) + 1
                  IN  /\ out[k].element_id = elements[i].id
                      /\ out[k].type = elements[i].type
                      /\ out[k].category = _get_category(elements[i])

\* C10 witness: a list of three elements whose middle one fails in is_a()
\* and whose two others differ, returned as two records in input order.
C10_Witness ==
    /\ pc = "done"
    /\ all_quantities.status = "ok"
    /\ Len(elements) = 3
    /\ elements[2].fault = "is_a"
    /\ Len(all_quantities.list) = 2
    /\ all_quantities.list[1].element_id = elements[1].id
    /\ all_quantities.list[2].element_id = elements[3].id
    /\ elements[1].id # elements[3].id

-----------------------------------------------------------------------------
(* Properties of the BOQ generator and the exporter *)

Generated == pc \in {"generated", "numbered", "summarised", "exported"}

\* The BOQ lines export_boq wrote, sheet after sheet.
RECURSIVE WrittenLines(_, _)
WrittenLines(list, i) ==
    IF i > Len(list) THEN <<>>
    ELSE (IF list[i].name \in {<<"Summary">>, <<"Project Information">>, <<"No Data">>}
          THEN <<>> ELSE list[i].rows) \o WrittenLines(list, i + 1)

NumberedFromOne(rows) == \A i \in 1..Len(rows) : rows[i].item_no = Some(i)

\* C4: the item numbers of the lines are 1..N in the order of
\* the lines, in the frame generate_boq returns, after add_item_numbers, and
\* in the lines export_boq writes.
C4_ItemNumbersOneToN ==
    /\ Generated => NumberedFromOne(boq_df.rows)
    /\ numbered.status # "none" =>
          (numbered.status = "ok" /\ NumberedFromOne(numbered.df.rows))
    /\ sheets.status = "ok" => NumberedFromOne(WrittenLines(sheets.list, 1))

\* C5: for a type of the volume-priority set and a summed volume > 0 the
\* unit is the volume unit and the quantity the summed volume, whatever the
\* summed area, the summed length and the count are.
C5_VolumePriority ==
    (pc = "done" /\ pq_args.given /\ pq_args.volume.m > 0
        /\ pq_args.element_type \in
              {<<"Ifc", "Wall">>, <<"Ifc", "Slab">>, <<"Ifc", "Footing">>,
               <<"Ifc", "Column">>, <<"Ifc", "Beam">>})
        => pq_result.value = [unit |-> "m3", quantity |-> pq_args.volume]

\* C5 witness: a beam group with positive volume, area and length gets m3.
C5_Witness ==
    /\ pc = "done"
    /\ pq_args.element_type = <<"Ifc", "Beam">>
    /\ pq_args.volume.m > 0 /\ pq_args.area.m > 0 /\ pq_args.length.m > 0
    /\ pq_result.value.unit = "m3"

\* A value in ten-thousandths (the records hold at most four decimals).
Units4(d) == d.m * Pow10(4 - d.e)

\* The summed measure f of the records, in ten-thousandths, absent as 0.
TotalOf(items, f) ==
    LET S[i \in 0..Len(items)] ==
            IF i = 0 THEN 0
            ELSE S[i - 1] + (IF items[i][f].some THEN Units4(items[i][f].val) ELSE 0)
    IN  S[Len(items)]

\* q is the total t (in ten-thousandths) rounded to three decimals.
RoundedTo3(q, t) ==
    /\ q.e <= 3
    /\ Units4(q) - t <= 5
    /\ t - Units4(q) <= 5

\* C6: every line has one unit out of m3, m2, m, No. and its quantity is the
\* rounded summed total of that measure over the group; the unit is No., with
\* the number of records as quantity, exactly when no summed measure is > 0.
C6_OnePrimaryUnit ==
    (Generated /\ self_quantities # <<>>) =>
        /\ Len(boq_items) = Len(grouped)
        /\ \A i \in 1..Len(grouped) :
              LET line == boq_items[i]
                  items == grouped[i].items
                  v == TotalOf(items, "volume")
                  a == TotalOf(items, "area")
                  l == TotalOf(items, "length")
              IN  /\ line.unit \in {"m3", "m2", "m", "No."}
                  /\ line.unit = "m3" => (v > 0 /\ RoundedTo3(line.quantity, v))
                  /\ line.unit = "m2" => (a > 0 /\ RoundedTo3(line.quantity, a))
                  /\ line.unit = "m" => (l > 0 /\ RoundedTo3(line.quantity, l))
                  /\ line.unit = "No." => line.quantity = Dec(Len(items), 0)
                  /\ line.unit = "No." <=> (v <= 0 /\ a <= 0 /\ l <= 0)

\* C6 witness: one record with no measure at all gives one line, No., 1.
C6_Witness ==
    /\ Generated
    /\ Len(self_quantities) = 1
    /\ IsNone(self_quantities[1].volume)
    /\ IsNone(self_quantities[1].area)
    /\ IsNone(self_quantities[1].length)
    /\ Len(boq_df.rows) = 1
    /\ boq_df.rows[1].unit = "No."
    /\ boq_df.rows[1].quantity = Dec(1, 0)

TypesLoaded == {self_quantities[k].type : k \in 1..Len(self_quantities)}
OfType(t) == {k \in 1..Len(self_quantities) : self_quantities[k].type = t}

SumOfCounts(rows) ==
    LET S[i \in 0..Len(rows)] == IF i = 0 THEN 0 ELSE S[i - 1] + rows[i].count
    IN  S[Len(rows)]

\* C7: grouping by type gives one line per distinct type; a line's volume
\* total is the (rounded) sum of the volumes of the records of its type, its
\* count their number, and the counts add up to the number of records.
C7_GroupByType ==
    (Generated /\ grouping_level = "type" /\ self_quantities # <<>>) =>
        /\ Len(boq_df.rows) = Cardinality(TypesLoaded)
        /\ SumOfCounts(boq_df.rows) = Len(self_quantities)
        /\ \A t \in TypesLoaded :
              \E i \in 1..Len(boq_df.rows) :
                  LET line == boq_df.rows[i]
                      members == SelectSeq(self_quantities, LAMBDA q : q.type = t)
                      v == TotalOf(members, "volume")
                  IN  /\ line.element_type = t
                      /\ line.count = Cardinality(OfType(t))
                      /\ IF v > 0
                         THEN line.volume_m3.some /\ RoundedTo3(line.volume_m3.val, v)
                         ELSE line.volume_m3 = None

\* C7 witness: three walls of volume 2.0, 3.5 and 1.5 give one line: m3,
\* 7.0, count 3.
C7_Witness ==
    /\ Generated
    /\ grouping_level = "type"
    /\ Len(self_quantities) = 3
    /\ \A k \in 1..3 : self_quantities[k].type = <<"Ifc", "Wall">>
    /\ self_quantities[1].volume = Some(Dec(2, 0))
    /\ self_quantities[2].volume = Some(Dec(35, 1))
    /\ self_quantities[3].volume = Some(Dec(15, 1))
    /\ Len(boq_df.rows) = 1
    /\ boq_df.rows[1].unit = "m3"
    /\ boq_df.rows[1].quantity = Dec(7, 0)
    /\ boq_df.rows[1].count = 3

\* Two records are in the same group of the last generate_boq.
SameGroup(a, b) ==
    \E k \in 1..Len(grouped) :
        /\ \E i \in 1..Len(grouped[k].items) : grouped[k].items[i] = a
        /\ \E j \in 1..Len(grouped[k].items) : grouped[k].items[j] = b

\* (type, normalized storey, normalized material) of a record.
Triple(q) ==
    <<q.type, OrElse(q.storey, <<"Unknown">>), OrElse(q.material, <<"Unknown">>)>>

\* C16: under grouping level 'all' two records share a group exactly when
\* their (type, storey, material) triples are equal, and the line of a group
\* shows the triple of its records, also for values that hold '|'.
C16_CompositePartition ==
    (Generated /\ grouping_level = "all" /\ self_quantities # <<>>) =>
        /\ \A i, j \in 1..Len(self_quantities) :
              SameGroup(self_quantities[i], self_quantities[j])
                  <=> Triple(self_quantities[i]) = Triple(self_quantities[j])
        /\ \A k \in 1..Len(grouped) :
              LET t == Triple(grouped[k].items[1])
                  line == boq_items[k]
              IN  /\ line.element_type = t[1]
                  /\ line.storey = t[2]
                  /\ line.material = t[3]

\* The values shown in field f, over the four grouping levels, on the lines
\* of the groups whose records all lack f.
SentinelsShown(f) ==
    UNION { LET g == _group_quantities(self_quantities, level)
            IN  { _create_boq_item(g[k].key, g[k].items, level)[f] :
                    k \in { n \in 1..Len(g) :
                              \A m \in 1..Len(g[n].items) : ~Truthy(g[n].items[m][f]) } } :
            level \in {"type", "storey", "material", "all"} }

\* C17: records without storey (material) share a group under storey
\* (material) grouping, and under 'all' when they agree on the other two
\* fields; no line shows an absent storey or material; and the value shown
\* for an absent storey (material) is the same at every grouping level.
C17_StableSentinel ==
    (Generated /\ self_quantities # <<>>) =>
        /\ \A i \in 1..Len(boq_df.rows) :
              boq_df.rows[i].storey # <<>> /\ boq_df.rows[i].material # <<>>
        /\ \A i, j \in 1..Len(self_quantities) :
              LET a == self_quantities[i]
                  b == self_quantities[j]
              IN  /\ (grouping_level = "storey" /\ ~Truthy(a.storey) /\ ~Truthy(b.storey))
                        => SameGroup(a, b)
                  /\ (grouping_level = "material" /\ ~Truthy(a.material) /\ ~Truthy(b.material))
                        => SameGroup(a, b)
                  /\ (grouping_level = "all" /\ ~Truthy(a.storey) /\ ~Truthy(b.storey)
                        /\ a.type = b.type
                        /\ OrElse(a.material, <<"Unknown">>) = OrElse(b.material, <<"Unknown">>))
                        => SameGroup(a, b)
        /\ Cardinality(SentinelsShown("storey")) <= 1
        /\ Cardinality(SentinelsShown("material")) <= 1

\* a <= b in the order (element type, storey).
RowLessOrEqual(a, b) ==
    \/ StrLess(a.element_type, b.element_type)
    \/ (a.element_type = b.element_type /\ ~StrLess(b.storey, a.storey))

Occurrences(rows, x) == Cardinality({i \in 1..Len(rows) : rows[i] = x})

\* C18: the lines generate_boq returns are in ascending order of (element
\* type, storey) at every grouping level, and they are the lines of the
\* groups, each as often as it was created.
C18_SortedByTypeAndStorey ==
    (Generated /\ self_quantities # <<>>) =>
        /\ \A i \in 1..(Len(boq_df.rows) - 1) :
              RowLessOrEqual(boq_df.rows[i], boq_df.rows[i + 1])
        /\ Len(boq_df.rows) = Len(boq_items)
        /\ \A i \in 1..Len(boq_items) :
              Occurrences(boq_df.rows, boq_items[i]) = Occurrences(boq_items, boq_items[i])

\* C18 witness: the groups were created in another order than the sorted
\* one, and two lines of one type stand in the order of their storeys.
C18_Witness ==
    /\ Generated
    /\ Len(boq_df.rows) = 3
    /\ boq_df.rows # boq_items
    /\ boq_df.rows[1].element_type = boq_df.rows[2].element_type
    /\ StrLess(boq_df.rows[1].storey, boq_df.rows[2].storey)
    /\ StrLess(boq_df.rows[2].element_type, boq_df.rows[3].element_type)

\* The sum of an auxiliary total over the lines, in ten-thousandths, an
\* absent total counted as 0.
ColumnTotal(rows, col) ==
    LET S[i \in 0..Len(rows)] ==
            IF i = 0 THEN 0
            ELSE S[i - 1] + (IF rows[i][col].some THEN Units4(rows[i][col].val) ELSE 0)
    IN  S[Len(rows)]

Summarised == pc \in {"summarised", "exported"} /\ summary.status = "ok"

\* C19: for a BOQ with lines, the summary has the number of lines, the sums
\* of the three auxiliary totals over the lines (absent as 0), the sum of
\* the counts and the distinct element types of the lines, all of them
\* functions of the lines passed in.
C19_SummaryOfLines ==
    (Summarised /\ boq_df.rows # <<>>) =>
        LET s == summary.value
            rows == boq_df.rows
        IN  /\ ~s.empty
            /\ s.total_items = Len(rows)
            /\ Units4(s.total_volume_m3) = ColumnTotal(rows, "volume_m3")
            /\ Units4(s.total_area_m2) = ColumnTotal(rows, "area_m2")
            /\ Units4(s.total_length_m) = ColumnTotal(rows, "length_m")
            /\ s.total_count = SumOfCounts(rows)
            /\ {s.element_types[i] : i \in 1..Len(s.element_types)}
                  = {rows[i].element_type : i \in 1..Len(rows)}
            /\ \A i, j \in 1..Len(s.element_types) :
                  s.element_types[i] = s.element_types[j] => i = j

\* C19 witness: the lines of a beam without volume, a door of volume
\* 1.0004 and a wall of volume 2.0: three lines, total volume 3.0, count 3.
C19_Witness ==
    /\ Summarised
    /\ Len(boq_df.rows) = 3
    /\ boq_df.rows[1].volume_m3 = None
    /\ boq_df.rows[2].volume_m3 = Some(Dec(1, 0))
    /\ boq_df.rows[3].volume_m3 = Some(Dec(2, 0))
    /\ summary.value.total_items = 3
    /\ summary.value.total_volume_m3 = Dec(3, 0)
    /\ summary.value.total_count = 3
    /\ Len(summary.value.element_types) = 3

\* A line mixes units when it carries more than one kind of measure.
MixesUnits(line) ==
    Cardinality({c \in {"volume_m3", "area_m2", "length_m"} : line[c].some}) > 1

\* The sum of the primary quantities of the lines that satisfy Which, in
\* ten-thousandths.
PrimaryTotal(rows, Which(_)) ==
    LET S[i \in 0..Len(rows)] ==
            IF i = 0 THEN 0
            ELSE S[i - 1] + (IF Which(rows[i]) THEN Units4(rows[i].quantity) ELSE 0)
    IN  S[Len(rows)]

IsVolumePriorityLine(line) ==
    /\ line.unit = "m3"
    /\ line.element_type \in {<<"Ifc", "Wall">>, <<"Ifc", "Slab">>, <<"Ifc", "Footing">>,
                              <<"Ifc", "Column">>, <<"Ifc", "Beam">>}

IsVolumeLine(line) == line.unit = "m3"

TypeBoqSummarised ==
    /\ Summarised
    /\ grouping_level = "type"
    /\ boq_df.rows # <<>>
    /\ \A i \in 1..Len(boq_df.rows) : ~MixesUnits(boq_df.rows[i])

\* C20 (as stated): grouped by type and with no line mixing units, the
\* primary quantities of the m3 lines of the volume-priority types add up to
\* the summary's total volume.
C20_VolumePriorityLinesRoundTrip ==
    TypeBoqSummarised =>
        PrimaryTotal(boq_df.rows, IsVolumePriorityLine)
            = Units4(summary.value.total_volume_m3)

\* C20 (amended): grouped by type and with no line mixing units, the
\* primary quantities of all m3 lines, of whatever type, add up to the
\* summary's total volume.
C20_VolumeLinesRoundTrip ==
    TypeBoqSummarised =>
        PrimaryTotal(boq_df.rows, IsVolumeLine)
            = Units4(summary.value.total_volume_m3)

\* C20 witness: walls of volume 2.0 and 3.5 and a door of volume 1.0004
\* give the lines door 1.0 m3 and wall 5.5 m3, and the total volume 6.5.
C20_Witness ==
    /\ TypeBoqSummarised
    /\ Len(boq_df.rows) = 2
    /\ boq_df.rows[1].element_type = <<"Ifc", "Door">>
    /\ boq_df.rows[1].unit = "m3"
    /\ boq_df.rows[1].quantity = Dec(1, 0)
    /\ boq_df.rows[2].element_type = <<"Ifc", "Wall">>
    /\ boq_df.rows[2].quantity = Dec(55, 1)
    /\ summary.value.total_volume_m3 = Dec(65, 1)

\* The part of a type name before the first '_'.
TypeBase(t) ==
    IF \E i \in 1..Len(t) : t[i] = "_"
    THEN SubSeq(t, 1, (CHOOSE i \in 1..Len(t) :
                          t[i] = "_" /\ \A j \in 1..(i - 1) : t[j] # "_") - 1)
    ELSE t

\* C26: the priority table of _determine_primary_quantity: an area-priority
\* type with area > 0 gets m2 also when volume > 0; a length-priority type
\* that did not get m3 by volume priority and has length > 0 gets m also when
\* area > 0 (for IfcPile also when volume > 0); every other case takes the
\* first of volume, area, length that is > 0, else the count.
C26_PriorityTable ==
    (pc = "done" /\ pq_args.given) =>
        LET b == TypeBase(pq_args.element_type)
            v == pq_args.volume
            a == pq_args.area
            l == pq_args.length
            byVolume == b \in {<<"Ifc", "Wall">>, <<"Ifc", "Slab">>, <<"Ifc", "Footing">>,
                               <<"Ifc", "Column">>, <<"Ifc", "Beam">>} /\ v.m > 0
            byArea == ~byVolume /\ a.m > 0
                        /\ b \in {<<"Ifc", "Roof">>, <<"Ifc", "CurtainWall">>, <<"Ifc", "Railing">>}
            byLength == ~byVolume /\ ~byArea /\ l.m > 0
                        /\ b \in {<<"Ifc", "Beam">>, <<"Ifc", "Pile">>}
            r == pq_result.value
        IN  /\ byArea => r = [unit |-> "m2", quantity |-> a]
            /\ byLength => r = [unit |-> "m", quantity |-> l]
            /\ (~byVolume /\ ~byArea /\ ~byLength) =>
                  r = IF v.m > 0 THEN [unit |-> "m3", quantity |-> v]
                      ELSE IF a.m > 0 THEN [unit |-> "m2", quantity |-> a]
                      ELSE IF l.m > 0 THEN [unit |-> "m", quantity |-> l]
                      ELSE [unit |-> "No.", quantity |-> Dec(pq_args.count, 0)]

\* C26 witness: a pile group with volume, area and length > 0 gets m and
\* its length.
C26_Witness ==
    /\ pc = "done"
    /\ pq_args.element_type = <<"Ifc", "Pile">>
    /\ pq_args.volume.m > 0 /\ pq_args.area.m > 0 /\ pq_args.length.m > 0
    /\ pq_result.value = [unit |-> "m", quantity |-> pq_args.length]

\* C27: under type, storey and material grouping a line has the type of
\* the first record of its group, the group key as storey under storey
\* grouping and the first record's storey otherwise, and the first record's
\* material, absent values shown as the sentinel; also for keys with '|'.
C27_RepresentativeFields ==
    (Generated /\ grouping_level \in {"type", "storey", "material"}
        /\ self_quantities # <<>>) =>
        \A k \in 1..Len(grouped) :
            LET first == grouped[k].items[1]
                line == boq_items[k]
            IN  /\ line.element_type = first.type
                /\ line.storey =
                      IF grouping_level = "storey"
                      THEN (IF Truthy(first.storey) THEN first.storey.val
                            ELSE <<"Not Specified">>)
                      ELSE OrElse(first.storey, <<"Not Specified">>)
                /\ line.material = OrElse(first.material, <<"Not Specified">>)

\* The orders in which a list of records can be loaded.
LoadOrders(qs) ==
    { [i \in 1..Len(qs) |-> qs[p[i]]] :
        p \in { f \in [1..Len(qs) -> 1..Len(qs)] :
                  \A i, j \in 1..Len(qs) : f[i] = f[j] => i = j } }

\* C28: at every grouping level the unit and the quantity of the line of a
\* group are the same for every order of the loaded records.
C28_OrderInsensitive ==
    (Generated /\ self_quantities # <<>>) =>
        \A qs \in LoadOrders(self_quantities) :
            LET g == _group_quantities(qs, grouping_level)
            IN  \A k \in 1..Len(grouped) :
                    \E n \in 1..Len(g) :
                        LET line == _create_boq_item(g[n].key, g[n].items, grouping_level)
                        IN  /\ g[n].key = grouped[k].key
                            /\ line.unit = boq_items[k].unit
                            /\ line.quantity = boq_items[k].quantity

\* The group keys of the loaded records at the last grouping level.
KeysLoaded == {GroupKey(self_quantities[i], grouping_level) : i \in 1..Len(self_quantities)}

\* The retained items are those of the loaded records.
RetainedItemsCurrent ==
    /\ Len(boq_items) = Cardinality(KeysLoaded)
    /\ self_quantities = <<>> => boq_items = <<>>

\* C29: a generate_boq call leaves the loaded records as they are, and after
\* it the retained items are one per group of the loaded records, none when
\* no record is loaded.
C29_RetainedItemsFollowLastCall ==
    [][pc' = "generated" =>
          (self_quantities' = self_quantities /\ RetainedItemsCurrent')]_vars

\* C24: when no record is loaded the export does not fail and the document
\* written holds the explicit 'no data found' placeholder line.
C24_EmptyBoqHasPlaceholder ==
    (pc = "exported" /\ self_quantities = <<>>) =>
        /\ sheets.status = "ok"
        /\ \E i \in 1..Len(sheets.list) :
              \E j \in 1..Len(sheets.list[i].rows) : sheets.list[i].rows[j] = NoDataMessage

-----------------------------------------------------------------------------
(* Properties of the rate lookup *)

\* The table is a mapping of types to mappings of keys to numbers.
WellFormed(table) ==
    /\ table.k = "obj"
    /\ \A i \in 1..Len(table.entries) :
          /\ table.entries[i].value.k = "obj"
          /\ \A j \in 1..Len(table.entries[i].value.entries) :
                table.entries[i].value.entries[j].value.k = "num"

\* key occurs in material, letter case apart.
OccursIn(key, material) ==
    \E o \in 0..Len(material) :
        /\ o + Len(key) <= Len(material)
        /\ \A j \in 1..Len(key) : LowerChar(material[o + j]) = LowerChar(key[j])

\* The rate the lookup priority gives.
ExpectedRate(table, t, m) ==
    IF ~\E i \in 1..Len(table.entries) : table.entries[i].key = t THEN 0
    ELSE LET E == (table.entries[CHOOSE i \in 1..Len(table.entries) :
                                    table.entries[i].key = t]).value.entries
             M == {i \in 1..Len(E) :
                     m.some /\ m.val # <<>> /\ OccursIn(E[i].key, m.val)
                     /\ E[i].key # <<"d", "e", "f", "a", "u", "l", "t">>}
             D == {i \in 1..Len(E) : E[i].key = <<"d", "e", "f", "a", "u", "l", "t">>}
         IN  IF M # {} THEN E[CHOOSE i \in M : \A j \in M : i <= j].value.v
             ELSE IF D # {} THEN E[CHOOSE i \in D : TRUE].value.v
             ELSE 0

\* C8: get_rate gives 0.0 for a type the table lacks; else, for a given
\* material, the rate of the first entry in table order whose key occurs in
\* the material, case apart, and is not 'default'; else the 'default' rate;
\* else 0.0.
C8_RateLookup ==
    (pc = "called" /\ WellFormed(rates)) =>
        /\ rate_result.status = "ok"
        /\ rate_result.value.v =
              ExpectedRate(rates, rate_call.element_type, rate_call.material)
        /\ rates = JObj(<<KV(TypeWall, JObj(<<KV(KConcrete, JNum(50)),
                                              KV(DefaultKey, JNum(10))>>))>>) =>
              /\ (rate_call.element_type = TypeWall /\ rate_call.material = Some(MReadyMix))
                    => rate_result.value.v = 50
              /\ (rate_call.element_type = TypeWall /\ rate_call.material = Some(KSteel))
                    => rate_result.value.v = 10
              /\ rate_call.element_type = TypeDoor => rate_result.value.v = 0

\* C8 witness: with {'Concrete': 50, 'default': 10}, the material
\* 'Ready Mix Concrete Grade 30' gives 50.
C8_Witness ==
    /\ pc = "called"
    /\ rates = JObj(<<KV(TypeWall, JObj(<<KV(KConcrete, JNum(50)), KV(DefaultKey, JNum(10))>>))>>)
    /\ rate_call = [given |-> TRUE, element_type |-> TypeWall, material |-> Some(MReadyMix)]
    /\ rate_result = Returned(JNum(50))

\* C22: after load_rates of an absent or unparsable rate file, or of a file
\* with a malformed entry (a top-level value that is not a mapping, a type
\* whose entry is a bare number), every get_rate call returns 0.0 and
\* none raises.
C22_MalformedDegradesToEmpty ==
    (pc = "called" /\ (rates = JObj(<<>>) \/ ~WellFormed(rates))) =>
        rate_result = Returned(JNum(0))

-----------------------------------------------------------------------------
(* Properties of process_boq *)

\* The sum of the totals of a rollup.
RECURSIVE SumTotals(_)
SumTotals(S) ==
    IF S = {} THEN Dec(0, 0)
    ELSE LET x == CHOOSE y \in S : TRUE IN DecAdd(x.Total_Cost, SumTotals(S \ {x}))

\* quantity x rate for a row, a non-numeric quantity counting as 0.
PricedRowOf(row, rate) ==
    DecMul(IF "num" \in DOMAIN row.quantity THEN row.quantity.num ELSE Dec(0, 0), rate)

\* C21: the cost of every priced line is quantity x rate(type, material),
\* a non-numeric quantity counting as 0; the by-type rollup and the
\* by-storey rollup each sum to the grand total, which is the sum of the
\* costs of all priced lines.
C21_CostAndRollups ==
    pc = "priced" =>
        /\ \A i \in 1..Len(processed_dfs) : \A j \in 1..Len(processed_dfs[i].rows) :
              LET row == processed_dfs[i].rows[j]
                  r == get_rate(rates, row.element_type.val, row.material)
              IN  /\ r.status = "ok"
                  /\ row.Rate = Dec(r.value.v, 0)
                  /\ row.Total_Cost = PricedRowOf(row, row.Rate)
        /\ final_summary.grand_total = SumCosts(summary_data, 1)
        /\ SumTotals(final_summary.by_type) = final_summary.grand_total
        /\ SumTotals(final_summary.by_storey) = final_summary.grand_total

\* The lines of the sheets written to the output, as summary entries.
RECURSIVE PricedLines(_, _)
PricedLines(dfs, i) ==
    IF i > Len(dfs) THEN <<>>
    ELSE [j \in 1..Len(dfs[i].rows) |->
             [Element_Type |-> dfs[i].rows[j].element_type,
              Storey |-> dfs[i].rows[j].storey,
              Material |-> dfs[i].rows[j].material,
              Total_Cost |-> dfs[i].rows[j].Total_Cost]]
         \o PricedLines(dfs, i + 1)

-----------------------------------------------------------------------------
(* Properties of process_ifc_to_boq *)

\* C23: when cost estimation is requested and the rate file cannot be read,
\* the run does not report success.
C23_UnreadableRatesAbort ==
    (pc = "done" /\ run_args.cost_estimation /\ ~run_args.rates_path.readable) =>
        run_result # Returned(TRUE)

\* C25: a run that returns False has produced no output document, and a
\* run that returns True has left a complete output document, also when
\* the pricing step that rewrites the document is interrupted.
C25_NoPartialDocument ==
    pc = "done" =>
        /\ run_result = Returned(FALSE) => ~output_document.exists
        /\ run_result = Returned(TRUE) =>
              (output_document.exists /\ ~output_document.partial)

-----------------------------------------------------------------------------
(* Properties of get_unit_scale_factor *)

UnitDone == pc = "done" /\ ifc_file.loaded

HasUnits(file) == file.project = "present" /\ file.context = "units"

\* The length units of the assignment.
LengthUnits(file) == {i \in 1..Len(file.units) : IsLengthUnit(file.units[i])}

IsSIMetre(u) ==
    u.cls = "IfcSIUnit" /\ IsLengthUnit(u) /\ u.name = Some(<<"METRE">>)

PrefixFactor(u) ==
    IF u.prefix = Some("MILLI") THEN Milli
    ELSE IF u.prefix = Some("CENTI") THEN Centi
    ELSE Metre

\* C14: when the length unit of the model is an SI unit named METRE, the
\* factor is decided by its prefix: 0.001 for MILLI, 0.01 for CENTI, 1.0
\* for none.
C14_SIPrefixDecides ==
    (UnitDone /\ HasUnits(ifc_file)) =>
        \A i \in LengthUnits(ifc_file) :
            (LengthUnits(ifc_file) = {i} /\ IsSIMetre(ifc_file.units[i])
                /\ ifc_file.units[i].prefix \in {None, Some("MILLI"), Some("CENTI")})
              => scale_result = [status |-> "ok", value |-> PrefixFactor(ifc_file.units[i])]

\* A unit either loop can decide on.
Resolves(u) ==
    /\ IsLengthUnit(u)
    /\ \/ u.cls = "IfcSIUnit"
       \/ /\ IsNamedUnit(u) /\ Truthy(u.name)
          /\ \E j \in 1..Len(u.name.val) : UpperTok(u.name.val[j]) \in {"METER", "METRE"}

Unresolvable(file) ==
    \/ ~HasUnits(file)
    \/ \A i \in 1..Len(file.units) : ~Resolves(file.units[i])

\* C15: for a loaded model the method returns, the factor is one of 0.001,
\* 0.01 and 1.0, and it is 0.001 when there is no project, no unit context,
\* no unit that resolves, or when reading the metadata raises.
C15_FactorPositiveWithDefault ==
    UnitDone =>
        /\ scale_result.status = "ok"
        /\ scale_result.value \in {Milli, Centi, Metre}
        /\ scale_result.value.m > 0
        /\ Unresolvable(ifc_file) => scale_result.value = Milli

\* C15 witness: reading the unit context raises and the factor is 0.001.
C15_Witness ==
    /\ UnitDone
    /\ ifc_file.project = "present"
    /\ ifc_file.context = "raises"
    /\ scale_result = [status |-> "ok", value |-> Milli]

=============================================================================
